---- MODULE Spec2Model ----
(***************************************************************************)
(* Model of the interview question pipeline of the AI-interview backend:   *)
(* the POST /api/ai/interview handler (prompt construction, generation,    *)
(* validation, regeneration and fallback) and the text classifiers it      *)
(* uses.                                                                   *)
(*                                                                         *)
(* A text is a sequence of tokens.  A token is a word, a punctuation mark  *)
(* written directly after the preceding word ("?", ".", "!", ",", ":"), or *)
(* a markup token standing as a word of its own.  Texts are single-line.   *)
(***************************************************************************)
EXTENDS Integers, Sequences, FiniteSets, TLC

\* ------------------------------------------------------------------------
\* Token classes
\* ------------------------------------------------------------------------

Empty == << >>

\* Punctuation marks; they are written directly after the preceding token.
Punct == {"?", ".", "!", ",", ":"}

\* The characters [.!] that end a sentence.
StopMarks == {".", "!"}

\* Tokens matching \d+.
Digits == {"3", "4"}

\* Tokens removed by the first two replacements of sanitizeText.
Markup == {"**", "~~", "<b>"}

\* Tokens matching #{1,6} or > at the start of a line.
HeadingMarks == {"#", ">"}

\* toLowerCase on the capitalised tokens of the vocabulary.
LowerTable ==
  [w \in {"What", "How", "Why", "Which", "Tell", "Describe", "Can", "Could",
          "Great", "Project", "Phoenix", "Kafka", "Python", "Backend",
          "Engineer", "Acme", "I", "We", "Sure", "JSON", "Answer", "Role",
          "Required", "Skills", "Company", "Payments", "Ledger", "Let's",
          "Primary", "Projects", "Interviewer", "Candidate", "Job",
          "Description", "Not specified", "Absolutely", "Let", "Location",
          "Resume", "Target", "Top", "Of", "Here's", "No"} |->
     CASE w = "What" -> "what" [] w = "How" -> "how" [] w = "Why" -> "why"
       [] w = "Which" -> "which" [] w = "Tell" -> "tell"
       [] w = "Describe" -> "describe" [] w = "Can" -> "can"
       [] w = "Could" -> "could" [] w = "Great" -> "great"
       [] w = "Project" -> "project" [] w = "Phoenix" -> "phoenix"
       [] w = "Kafka" -> "kafka" [] w = "Python" -> "python"
       [] w = "Backend" -> "backend" [] w = "Engineer" -> "engineer"
       [] w = "Acme" -> "acme" [] w = "I" -> "i" [] w = "We" -> "we"
       [] w = "Sure" -> "sure" [] w = "JSON" -> "json"
       [] w = "Answer" -> "answer" [] w = "Role" -> "role"
       [] w = "Required" -> "required" [] w = "Skills" -> "skills"
       [] w = "Company" -> "company" [] w = "Payments" -> "payments"
       [] w = "Ledger" -> "ledger" [] w = "Let's" -> "let's"
       [] w = "Primary" -> "primary" [] w = "Projects" -> "projects"
       [] w = "Interviewer" -> "interviewer" [] w = "Candidate" -> "candidate"
       [] w = "Job" -> "job" [] w = "Description" -> "description"
       [] w = "Not specified" -> "not specified"
       [] w = "Absolutely" -> "absolutely" [] w = "Let" -> "let"
       [] w = "Location" -> "location" [] w = "Resume" -> "resume"
       [] w = "Target" -> "target" [] w = "Top" -> "top"
       [] w = "Of" -> "of" [] w = "Here's" -> "here's" [] w = "No" -> "no"]

Lower(w) == IF w \in DOMAIN LowerTable THEN LowerTable[w] ELSE w

LowerText(t) == [i \in 1..Len(t) |-> Lower(t[i])]

\* Tokens matching [A-Z][a-z0-9]{2,}
TitleCaseWords ==
  {"What", "How", "Why", "Which", "Tell", "Describe", "Can", "Could", "Great",
   "Project", "Phoenix", "Kafka", "Python", "Backend", "Engineer", "Acme",
   "Sure", "Answer", "Role", "Required", "Skills", "Company", "Payments",
   "Ledger", "Primary", "Projects", "Interviewer", "Candidate", "Job",
   "Description", "Absolutely", "Let", "Location", "Resume", "Target", "Top"}

\* Tokens matching [A-Z]{4,}
AcronymWords == {"JSON"}

\* Tokens holding a character outside [a-zA-Z0-9]
NonAlnumTokens == Punct \cup Markup \cup HeadingMarks
                    \cup {"let's", "Let's", "role's", "hands-on", "|||",
                          "Here's"}

\* Lowercased tokens with the characters outside [a-z0-9\s] removed
StripWord(w) ==
  CASE w = "let's" -> "lets"
    [] w = "role's" -> "roles"
    [] w = "hands-on" -> "handson"
    [] w \in Punct \cup Markup \cup HeadingMarks \cup {"|||"} -> ""
    [] OTHER -> w

\* ------------------------------------------------------------------------
\* Generic helpers on texts
\* ------------------------------------------------------------------------

\* Index of the first token of t in S, 0 when there is none (indexOf + 1).
FirstIndex(t, S) ==
  IF \E i \in 1..Len(t) : t[i] \in S
  THEN CHOOSE i \in 1..Len(t) : t[i] \in S /\ \A j \in 1..(i - 1) : t[j] \notin S
  ELSE 0

\* The tokens that begin a whitespace-separated word of the string.
WordStarts(t) == {i \in 1..Len(t) : i = 1 \/ t[i] \notin Punct}

\* text.split(/\s+/).length for a trimmed text
WordCount(t) == Cardinality(WordStarts(t))

\* String length of the text: its tokens and one space between words.
RECURSIVE CharLen(_)
CharLen(t) ==
  IF t = Empty THEN 0
  ELSE Len(t[Len(t)]) + CharLen(SubSeq(t, 1, Len(t) - 1))
         + (IF Len(t) > 1 /\ t[Len(t)] \notin Punct THEN 1 ELSE 0)

\* needle occurs in hay as a run of consecutive tokens (String.includes)
Includes(hay, needle) ==
  \/ needle = Empty
  \/ \E i \in 1..(Len(hay) - Len(needle) + 1) :
       SubSeq(hay, i, i + Len(needle) - 1) = needle

StartsWith(t, p) == Len(t) >= Len(p) /\ SubSeq(t, 1, Len(p)) = p

EndsWithQ(t) == t # Empty /\ t[Len(t)] = "?"

\* ------------------------------------------------------------------------
\* Text classifiers and transforms
\* ------------------------------------------------------------------------

\* Word limits passed to clampWords and enforceQuestionOnly.
RawMaxWords == 200
QuestionMaxWords == 60

clampWords(text, maxWords) ==
  IF text = Empty THEN Empty
  ELSE IF WordCount(text) <= maxWords THEN text
  ELSE LET cut == CHOOSE i \in WordStarts(text) :
                    Cardinality({j \in WordStarts(text) : j < i}) = maxWords
       IN  SubSeq(text, 1, cut - 1)

enforceQuestionOnly(text, maxWords) ==
  IF text = Empty THEN Empty
  ELSE LET q       == FirstIndex(text, {"?"})
           stop    == FirstIndex(text, StopMarks)
           first   == IF stop = 0 THEN text ELSE SubSeq(text, 1, stop - 1)
           candidate == IF q > 0 THEN SubSeq(text, 1, q)
                        ELSE IF first # Empty THEN first ELSE text
           trimmed == clampWords(candidate, maxWords)
       IN  IF EndsWithQ(trimmed) THEN trimmed ELSE Append(trimmed, "?")

\* One match of titleCaseRegex starting at token i: two to four Title Case
\* words separated by whitespace only; 0 when there is no match at i.
TitleRunLen(t, i) ==
  LET isT(k) == k <= Len(t) /\ t[k] \in TitleCaseWords
  IN  IF ~(isT(i) /\ isT(i + 1)) THEN 0
      ELSE IF ~isT(i + 2) THEN 2
      ELSE IF ~isT(i + 3) THEN 3
      ELSE 4

\* The matches of titleCaseRegex, scanning left to right from token i.
RECURSIVE TitleMatches(_, _)
TitleMatches(t, i) ==
  IF i > Len(t) THEN {}
  ELSE LET n == TitleRunLen(t, i)
       IN  IF n = 0 THEN TitleMatches(t, i + 1)
           ELSE {SubSeq(t, i, i + n - 1)} \cup TitleMatches(t, i + n)

AcronymMatches(t) == {<<t[i]>> : i \in {j \in 1..Len(t) : t[j] \in AcronymWords}}

\* The unknown entities of text; the empty set stands for the result false.
detectHallucinatedEntities(text, allowedContext) ==
  IF text = Empty \/ allowedContext = Empty THEN {}
  ELSE LET ctx == LowerText(allowedContext)
       IN  {tok \in TitleMatches(text, 1) \cup AcronymMatches(text) :
              ~Includes(ctx, LowerText(tok))}

\* Skills named on the "Required skills:" line of the job prompt (at most 5).
MaxSkills == 5

\* Removes the trailing " <digits>?" and then the trailing " <digits>" of a
\* line; lead tells whether the line begins with whitespace.
StripTrailingDigits(s, lead) ==
  LET spaced(u, k) == k > 1 \/ lead
      a == IF Len(s) >= 2 /\ s[Len(s)] = "?" /\ s[Len(s) - 1] \in Digits
              /\ spaced(s, Len(s) - 1)
           THEN SubSeq(s, 1, Len(s) - 2) ELSE s
      b == IF Len(a) >= 1 /\ a[Len(a)] \in Digits /\ spaced(a, Len(a))
           THEN SubSeq(a, 1, Len(a) - 1) ELSE a
  IN  b

\* Length below which a line of at most two words is taken for a title.
TitleLineMaxChars == 25

\* The line filter of sanitizeText: TRUE when the line is kept.
KeepLine(s) ==
  /\ s # Empty
  /\ ~(/\ WordCount(s) <= 2
       /\ CharLen(s) < TitleLineMaxChars
       /\ (WordCount(s) = 2 \/ \E i \in 1..Len(s) : s[i] \in NonAlnumTokens))
  /\ LowerText(s) \notin {<<"answer">>, <<"answer", ":">>,
                           <<"summary">>, <<"summary", ":">>}

sanitizeText(text) ==
  IF text = Empty THEN Empty
  ELSE LET noMarkup == SelectSeq(text, LAMBDA w : w \notin Markup)
           lead0    == text[1] \in Markup
           \* heading / blockquote marker at the start of the line
           noHead   == IF noMarkup # Empty /\ noMarkup[1] \in HeadingMarks
                          /\ Len(noMarkup) >= 2
                       THEN Tail(noMarkup) ELSE noMarkup
           lead1    == lead0 /\ noHead = noMarkup
           \* leading numbering "1. "
           noNum    == IF Len(noHead) >= 3 /\ noHead[1] \in Digits
                          /\ noHead[2] = "."
                       THEN SubSeq(noHead, 3, Len(noHead)) ELSE noHead
           lead2    == lead1 /\ noNum = noHead
           noDigits == StripTrailingDigits(noNum, lead2)
       IN  IF KeepLine(noDigits) THEN noDigits ELSE Empty

\* normalizeForCompare followed by the word set that overlapSimilarity builds
NormWords(s) == {StripWord(Lower(s[i])) : i \in 1..Len(s)} \ {""}

\* Similarity as a percentage rounded down: 100 * |A n B| / |A u B|
overlapSimilarity(a, b) ==
  LET wa == NormWords(a)
      wb == NormWords(b)
  IN  IF wa = {} \/ wb = {} THEN 0
      ELSE (100 * Cardinality(wa \cap wb)) \div Cardinality(wa \cup wb)

\* Similarity (in percent) from which a question counts as a repeat.
RepeatThreshold == 75

Interrogatives ==
  {"who", "what", "when", "where", "why", "how", "describe", "explain", "can",
   "could", "do", "did", "are", "is", "would", "should", "tell", "walk",
   "compare", "which", "whom", "please"}

isValidQuestion(text) ==
  /\ text # Empty
  /\ EndsWithQ(text)
  /\ ~(Len(text) = 2 /\ text[1] \in Digits)
  /\ WordCount(text) >= 3
  /\ Lower(text[1]) \in Interrogatives

AnswerOpeners == {"i", "i'm", "i've", "we", "we've", "during", "my"}

isAnswerLike(text) ==
  /\ text # Empty
  /\ LET s == LowerText(text)
     IN  \/ s[1] \in AnswerOpeners /\ Len(s) >= 2 /\ s[2] \notin Punct
         \/ StartsWith(s, <<"in", "my">>) /\ Len(s) >= 3 /\ s[3] \notin Punct
         \/ s[1] \in {"absolutely", "sure"}
         \/ StartsWith(s, <<"yes", ",">>)

\* ------------------------------------------------------------------------
\* Stored data and request inputs
\* ------------------------------------------------------------------------

\* Concatenation of the lines of a multi-line text.
RECURSIVE Flatten(_)
Flatten(lines) ==
  IF lines = << >> THEN Empty ELSE Head(lines) \o Flatten(Tail(lines))

\* The first n elements of a sequence (slice(0, n)).
Take(s, n) == SubSeq(s, 1, IF Len(s) < n THEN Len(s) ELSE n)

\* The last n elements of a sequence (slice(-n)).
LastN(s, n) == SubSeq(s, IF Len(s) > n THEN Len(s) - n + 1 ELSE 1, Len(s))

\* items joined by ", "
RECURSIVE JoinComma(_)
JoinComma(items) ==
  IF items = << >> THEN Empty
  ELSE IF Len(items) = 1 THEN <<items[1]>>
  ELSE <<items[1], ",">> \o JoinComma(Tail(items))

\* The user's targetJobs sub-documents, by id.
TargetJobs ==
  [id \in {"J1"} |->
     [role |-> <<"Backend", "Engineer">>, company |-> <<"Acme">>,
      skills |-> <<"Kafka", "Python">>,
      description |-> <<"build", "payments", "services">>]]

\* The Resume documents of the user, by id (rawText and analysis).
Resumes ==
  [id \in {"R1"} |->
     [rawText |-> <<"built", "Payments", "Ledger">>,
      analysis |-> [primaryRole |-> <<"Backend", "Engineer">>,
                    technicalSkills |-> <<"Python">>,
                    projects |-> << <<"Payments", "Ledger">> >>]]]

createResumeSummary(structured, rawText) ==
  LET role   == IF structured.primaryRole # Empty
                THEN << <<"Primary", "role", ":">> \o structured.primaryRole >>
                ELSE << >>
      skills == IF structured.technicalSkills # << >>
                THEN << <<"Top", "skills", ":">>
                          \o JoinComma(Take(structured.technicalSkills, 3)) >>
                ELSE << >>
      projs  == IF structured.projects # << >>
                THEN << <<"Projects", ":">>
                          \o Flatten(Take(structured.projects, 3)) >>
                ELSE << >>
      parts  == role \o skills \o projs
  IN  IF parts = << >> /\ rawText # Empty
      THEN << <<"Resume", "excerpt", ":">> \o rawText >>
      ELSE parts

\* sanitizeText on a multi-line text: its replacements and its line filter
\* work line by line.
SanitizeLines(lines) ==
  SelectSeq([i \in 1..Len(lines) |-> sanitizeText(lines[i])],
            LAMBDA l : l # Empty)

\* A faulty variant of isStarterOrFree that forgets the FREE plan.
isStarterOnly(plan) == plan = "STARTER"

isStarterOrFree(plan) == plan = "STARTER" \/ plan = "FREE"

\* jobPrompt, as lines, built from the stored target job or from the ad-hoc
\* job fields of the request body.
JobPromptLines(body) ==
  IF body.targetJobId # ""
  THEN IF body.targetJobId \in DOMAIN TargetJobs
       THEN LET job == TargetJobs[body.targetJobId]
                orNot(x) == IF x = Empty THEN <<"Not specified">> ELSE x
                desc == IF job.description # Empty THEN job.description
                        ELSE job.role \o <<"at">>
                               \o (IF job.company # Empty THEN job.company
                                   ELSE <<"Target", "Company">>)
            IN  << Empty, Empty, <<"TARGET JOB DETAILS">>, <<"=====">>,
                   <<"Role", ":">> \o orNot(job.role),
                   <<"Company", ":">> \o orNot(job.company),
                   <<"Location", ":", "Not specified">>,
                   <<"Required", "Skills", ":">>
                     \o orNot(JoinComma(job.skills)),
                   Empty, <<"Job", "Description", ":">>, desc, <<"=====">>,
                   Empty, <<"CRITICAL CLARIFICATION">>,
                   <<"INSTRUCTIONS FOR ASKING ABOUT JOB REQUIREMENTS">> >>
       ELSE << >>
  ELSE IF body.jobTitle # Empty \/ body.jobDescription # Empty
  THEN LET orNot(x) == IF x = Empty THEN <<"Not specified">> ELSE x
           desc == IF body.jobDescription # Empty THEN body.jobDescription
                   ELSE body.jobTitle
       IN  << Empty, Empty, <<"TARGET POSITION", ":">>,
              <<"Role", ":">> \o orNot(body.jobTitle) >>
           \o (IF body.company # Empty
               THEN << <<"Company", ":">> \o body.company >> ELSE << >>)
           \o << Empty, <<"Job", "Description", ":">>, desc, Empty,
                 <<"Required", "Skills", ":">> \o orNot(JoinComma(body.skills)) >>
  ELSE << >>

\* fullJobDescription of the request (empty when there is no job context)
FullJobDescription(body) ==
  LET lines == JobPromptLines(body)
      at == IF \E i \in 1..Len(lines) : lines[i] = <<"Job", "Description", ":">>
            THEN CHOOSE i \in 1..Len(lines) : lines[i] = <<"Job", "Description", ":">>
            ELSE 0
  IN  IF at = 0 THEN Empty ELSE lines[at + 1]

\* The company of the stored target job of the request, if any.
TargetJobCompany(body) ==
  IF body.targetJobId \in DOMAIN TargetJobs
  THEN TargetJobs[body.targetJobId].company ELSE Empty

\* cleanJobTitle: req.body.jobTitle in both branches of the job loading
CleanJobTitle(body) == body.jobTitle

\* The skills of the first "required skills:" line, at most MaxSkills.  The
\* keyword scan of the job text is taken only for a line holding nothing but
\* commas, which the job data of the model never produces.
extractRequiredSkills(jobPrompt) ==
  LET isLine(l) == StartsWith(LowerText(l), <<"required", "skills", ":">>)
  IN  IF ~\E i \in 1..Len(jobPrompt) : isLine(jobPrompt[i]) THEN << >>
      ELSE LET at   == CHOOSE i \in 1..Len(jobPrompt) :
                         isLine(jobPrompt[i])
                         /\ \A j \in 1..(i - 1) : ~isLine(jobPrompt[j])
               line == jobPrompt[at]
               raw  == SubSeq(line, FirstIndex(line, {":"}) + 1, Len(line))
           IN  IF raw = Empty \/ Includes(LowerText(raw), <<"not specified">>)
               THEN << >>
               ELSE Take(SelectSeq(raw, LAMBDA w : w # ","), MaxSkills)

JobSkillsText(body) == JoinComma(extractRequiredSkills(JobPromptLines(body)))

\* Number of trailing conversation turns written into the prompt.
HistoryWindow == 6

\* Number of recent interviewer turns the repeat check compares with.
RecentWindow == 3

\* Interviewer turns from which the phase changes.
PhaseTwoFrom == 2
PhaseThreeFrom == 5

questionsAsked(conversation) ==
  Cardinality({i \in 1..Len(conversation) : conversation[i].type # "user"})

\* The phase computed from the recent turns only.
interviewPhaseOfRecent(conversation) ==
  LET asked == questionsAsked(LastN(conversation, HistoryWindow))
  IN  IF asked < PhaseTwoFrom THEN "technical-skills"
      ELSE IF asked < PhaseThreeFrom THEN "experience-projects"
      ELSE "behavioral"

interviewPhase(conversation) ==
  IF questionsAsked(conversation) < PhaseTwoFrom THEN "technical-skills"
  ELSE IF questionsAsked(conversation) < PhaseThreeFrom THEN "experience-projects"
  ELSE "behavioral"

RECURSIVE HistoryText(_)
HistoryText(turns) ==
  IF turns = << >> THEN Empty
  ELSE <<IF Head(turns).type = "user" THEN "Candidate" ELSE "Interviewer", ":">>
         \o Head(turns).text \o HistoryText(Tail(turns))

conversationContext(conversation) ==
  IF conversation = << >> THEN Empty
  ELSE <<"INTERVIEW HISTORY", ":">>
         \o HistoryText(LastN(conversation, HistoryWindow))
         \o <<"PHASE GUIDANCE", interviewPhase(conversation)>>

\* The texts of the last (up to RecentWindow) interviewer turns, latest first.
RECURSIVE recentAssistantQuestions(_)
recentAssistantQuestions(conversation) ==
  IF conversation = << >> THEN << >>
  ELSE LET last == conversation[Len(conversation)]
           rest == recentAssistantQuestions(
                     SubSeq(conversation, 1, Len(conversation) - 1))
       IN  IF last.type # "user" /\ last.text # Empty
           THEN Take(<<last.text>> \o rest, RecentWindow)
           ELSE rest

\* The skip / move-on patterns, as the token prefixes they accept.
SkipPrefixes ==
  {<<"move", "on">>, <<"let's", "move", "on">>, <<"lets", "move", "on">>,
   <<"next", "question">>, <<"next", "one">>,
   <<"skip", "this">>, <<"skip", "it">>, <<"skip", "that">>,
   <<"go", "to", "next">>, <<"go", "to", "the", "next">>,
   <<"can", "we", "go", "to", "next">>, <<"can", "we", "go", "to", "the", "next">>,
   <<"proceed">>, <<"let's", "proceed">>, <<"lets", "proceed">>,
   <<"skip">>, <<"i", "skip">>, <<"i'd", "skip">>, <<"like", "to", "skip">>,
   <<"i", "like", "to", "skip">>, <<"i'd", "like", "to", "skip">>,
   <<"another", "question">>, <<"new", "question">>,
   <<"change", "topic">>, <<"change", "question">>,
   <<"change", "the", "topic">>, <<"change", "the", "question">>}

isSkipRequest(userAnswer) ==
  \E p \in SkipPrefixes : StartsWith(LowerText(userAnswer), p)

\* The clarification patterns, as token runs found anywhere in the utterance.
ClarificationPhrases ==
  {<<"repeat">>, <<"say", "again">>, <<"say", "that", "again">>,
   <<"come", "again">>, <<"didn't", "hear">>, <<"didn't", "understand">>,
   <<"didn't", "get">>, <<"didn't", "catch">>, <<"can't", "hear">>,
   <<"can't", "understand">>, <<"pardon">>, <<"what", "did", "you">>,
   <<"what", "was", "that">>, <<"could", "you", "repeat">>,
   <<"could", "you", "say">>, <<"could", "you", "please", "repeat">>,
   <<"could", "you", "please", "say">>, <<"one", "more", "time">>}

ElaborationPhrases ==
  {<<"elaborate">>, <<"explain", "more">>, <<"explain", "further">>,
   <<"explain", "that">>, <<"clarify">>, <<"clarification">>,
   <<"more", "detail">>, <<"more", "specific">>, <<"more", "context">>,
   <<"what", "do", "you", "mean">>, <<"can", "you", "specific">>,
   <<"can", "you", "be", "more", "specific">>, <<"rephrase">>,
   <<"different", "way">>}

\* /again\s*\??$/ : the utterance ends with "again" or "again?"
EndsWithAgain(s) ==
  \/ s # Empty /\ s[Len(s)] = "again"
  \/ Len(s) >= 2 /\ s[Len(s)] = "?" /\ s[Len(s) - 1] = "again"

isRepeatRequest(userAnswer) ==
  /\ ~isSkipRequest(userAnswer)
  /\ \/ \E p \in ClarificationPhrases : Includes(LowerText(userAnswer), p)
     \/ EndsWithAgain(LowerText(userAnswer))

isElaborateRequest(userAnswer) ==
  /\ ~isSkipRequest(userAnswer)
  /\ \E p \in ElaborationPhrases : Includes(LowerText(userAnswer), p)

\* ------------------------------------------------------------------------
\* Batch extraction
\* ------------------------------------------------------------------------

\* rawText.split(sep): the runs of tokens between occurrences of sep
RECURSIVE SplitOn(_, _)
SplitOn(t, sep) ==
  LET at == FirstIndex(t, {sep})
  IN  IF at = 0 THEN <<t>>
      ELSE <<SubSeq(t, 1, at - 1)>> \o SplitOn(SubSeq(t, at + 1, Len(t)), sep)

\* rawText.match(/[^?]*\?/g): the successive segments ending with "?"
RECURSIVE QuestionSegments(_)
QuestionSegments(t) ==
  LET at == FirstIndex(t, {"?"})
  IN  IF at = 0 THEN << >>
      ELSE <<SubSeq(t, 1, at)>> \o QuestionSegments(SubSeq(t, at + 1, Len(t)))

\* The items as they are, repetitions kept.
UniqueKeepAll(items) == items

\* Array.from(new Set(items)): first occurrences, in order
RECURSIVE Unique(_)
Unique(items) ==
  IF items = << >> THEN << >>
  ELSE LET init == SubSeq(items, 1, Len(items) - 1)
           last == items[Len(items)]
       IN  IF \E i \in 1..Len(init) : init[i] = last
           THEN Unique(init) ELSE Append(Unique(init), last)

extractBatchQuestions(rawText, desiredCount) ==
  IF rawText = Empty THEN << >>
  ELSE LET parts == SelectSeq(SplitOn(rawText, "|||"), LAMBDA q : q # Empty)
           candidates == IF parts # << >> THEN parts
                         ELSE QuestionSegments(rawText)
           cleaned == SelectSeq(
                        [i \in 1..Len(candidates) |->
                           enforceQuestionOnly(
                             clampWords(candidates[i], RawMaxWords),
                             QuestionMaxWords)],
                        EndsWithQ)
       IN  Take(Unique(cleaned), IF desiredCount > 1 THEN desiredCount ELSE 1)

\* ------------------------------------------------------------------------
\* POST /api/ai/interview: request state
\* ------------------------------------------------------------------------

VARIABLES
  req,                     \* the request: user plan and body fields
  pc,                      \* position of the handler
  bodyUserAnswer,          \* req.body.userAnswer (rewritten on a skip request)
  resumePrompt,            \* lines of the resume summary
  fullResumeText,
  companyQuestionContext,
  aiResponseRaw,
  trimmedResponse,
  calls,                   \* Generation Client calls made, in order
  status,                  \* HTTP status of the response, 0 while none is sent
  route,                   \* the return statement that sent the response
  response,                \* data.response
  responses                \* data.responses (batch), << >> when absent

interviewVars == <<req, pc, bodyUserAnswer, resumePrompt, fullResumeText,
                   companyQuestionContext, aiResponseRaw, trimmedResponse,
                   calls, status, route, response, responses>>

\* One application of extractBatchQuestions
VARIABLES
  rawText,                 \* its first argument
  desiredCount,            \* its second argument
  batchQuestions,          \* the array it returned
  batchDone                \* TRUE once it has returned

batchVars == <<rawText, desiredCount, batchQuestions, batchDone>>

\* One connection of the voice stream
VARIABLES
  limits,                  \* the kind of session tried (fixed)
  socket,                  \* "open", "failed" after 'error', "closed"
  deepgramLive,            \* the handle held, 0 for null
  handles,                 \* every handle opened: "live" or "finished"
  conversationHistory,     \* sessionContext.conversationHistory
  currentTranscript,       \* sessionContext.currentTranscript
  isProcessing,            \* sessionContext.isProcessing
  inFlight,                \* the calls of generateAIResponse not yet returned
  started,                 \* number of generations started
  lastFinal,               \* what became of the latest final transcript
  lastGeneration,          \* the latest generation that ran to its end
  exchange                 \* the latest event handled and what was sent for it

voiceVars == <<limits, socket, deepgramLive, handles, conversationHistory,
               currentTranscript, isProcessing, inFlight, started, lastFinal,
               lastGeneration, exchange>>

\* The phase tracker applied to a conversation that grows
VARIABLES
  phaseConversation,       \* the conversation supplied with the request
  phaseSeen                \* the phase computed for it, "" for none yet

phaseVars == <<phaseConversation, phaseSeen>>

\* The verification of one payment order by concurrent requests
VARIABLES
  paymentDoc,              \* the Payment document of the order in the database
  payerDoc,                \* the User document of its owner in the database
  creditsAtOrder,          \* the owner's credits before any verification
  verifyRequests           \* the verify requests received, each at its await

paymentVars == <<paymentDoc, payerDoc, creditsAtOrder, verifyRequests>>

\* The creation of chats by concurrent requests of one user
VARIABLES
  userDoc,                 \* the User document in the database
  creditsHeld,             \* the user's credits before any request
  chatDocs,                \* the number of Chat documents saved
  chatRequests             \* the requests received, each at its await

chatVars == <<userDoc, creditsHeld, chatDocs, chatRequests>>

\* The components modelled apart from the three above
extraVars == <<phaseVars, paymentVars, chatVars>>

\* What a step of the /interview handler leaves alone
outsideInterview == <<batchVars, voiceVars, extraVars>>

vars == <<interviewVars, batchVars, voiceVars, extraVars>>

\* ------------------------------------------------------------------------
\* Inputs of the model
\* ------------------------------------------------------------------------

\* Longest conversation supplied with a request.
MaxTurns == 2

Plans == {"STARTER", "FREE", "VALUE"}

Modes == {"friendly", "strict"}

NoJob ==
  [targetJobId |-> "", jobTitle |-> Empty, jobDescription |-> Empty,
   company |-> Empty, skills |-> << >>]

JobInputs ==
  {NoJob,
   [NoJob EXCEPT !.targetJobId = "J1"],
   [NoJob EXCEPT !.jobTitle = <<"Backend", "Engineer">>, !.company = <<"Acme">>]}

\* "" : no resumeId; "R0" : an id with no Resume document
ResumeIds == {"", "R0", "R1"}

QuestionKafka == <<"What", "is", "your", "experience", "with", "Kafka", "?">>

FinalFallbackNoTitle ==
  <<"Tell", "me", "about", "a", "project", "or", "task", "where", "you",
    "used", "the", "key", "technologies", "for", "this", "role", ".">>

AnswerNormal == <<"I", "used", "Kafka", "daily">>
AnswerSkip == <<"let's", "move", "on">>
AnswerRepeat == <<"Can", "you", "repeat", "that", "?">>
AnswerElaborate == <<"Can", "you", "elaborate", "?">>

UserAnswers == {AnswerNormal, AnswerSkip, AnswerRepeat, AnswerElaborate}

InterviewerTurns ==
  {[type |-> "ai", text |-> QuestionKafka],
   [type |-> "assistant", text |-> FinalFallbackNoTitle]}

CandidateTurns == {[type |-> "user", text |-> AnswerNormal]}

\* Conversations in which interviewer and candidate alternate, the
\* interviewer first, of at most MaxTurns turns.
Conversations ==
  UNION {{c \in [1..n -> InterviewerTurns \cup CandidateTurns] :
            \A i \in 1..n : (c[i] \in InterviewerTurns) <=> (i % 2 = 1)} :
         n \in 0..MaxTurns}

BatchCounts == {1, 3}

\* A question about a project that no job, resume or conversation names.
QuestionPhoenix == <<"Tell", "me", "about", "Project", "Phoenix", "?">>

\* A question that sanitizeText reduces to the empty text.
QuestionNumbered == <<"What", "about", "3", "?">>

\* Contents the model may return for a completion.
ModelOutputs ==
  {QuestionKafka,
   QuestionPhoenix,
   <<"I", "built", "queues", ".", "What", "about", "queues", "?">>,
   <<"Great", "answer">>,
   QuestionNumbered,
   Empty}

\* Outcomes of one call of openai.chat.completions.create: it throws, it
\* resolves to a value without choices[0].message, or it resolves to a
\* completion with the given content (null content is the empty text).
ResultsOver(outputs) ==
  {[kind |-> "throw", text |-> Empty], [kind |-> "malformed", text |-> Empty]}
    \cup {[kind |-> "text", text |-> t] : t \in outputs}

LLMResults == ResultsOver(ModelOutputs)

\* Contents in the format the batch instruction asks for: clauses separated
\* by "|||", three distinct ones and one repeated.
ThreeQuestions ==
  QuestionKafka \o <<"|||">> \o QuestionPhoenix \o <<"|||">>
    \o <<"What", "about", "queues", "?">>

RepeatedQuestions == QuestionKafka \o <<"|||">> \o QuestionKafka

BatchOutputs == {ThreeQuestions, RepeatedQuestions}

\* Outcomes of a call made inside a try block: there reading
\* choices[0].message.content of a malformed completion raises a TypeError in
\* the block, which is the outcome "throw".
RetryResults == {r \in LLMResults : r.kind # "malformed"}

\* Contents the model may return for the company questions.
CompanyOutputs == {<<"How", "does", "Acme", "scale", "Kafka", "?">>}

CompanyResults == {r \in ResultsOver(CompanyOutputs) : r.kind # "malformed"}

\* req.body.currentQuestion, Empty when absent
CurrentQuestions == {Empty, QuestionKafka}

\* The requests.  currentQuestion is read by the clarification branch only
\* (line 1392), so it varies for the clarification requests alone.
Requests ==
  {r \in [plan : Plans, interviewMode : Modes, job : JobInputs,
          resumeId : ResumeIds, conversation : Conversations,
          userAnswer : UserAnswers, batchCount : BatchCounts,
          currentQuestion : CurrentQuestions] :
     r.currentQuestion # Empty =>
       r.userAnswer \in {AnswerRepeat, AnswerElaborate}}

\* ------------------------------------------------------------------------
\* Values the handler derives from the request
\* ------------------------------------------------------------------------

jobPrompt == JobPromptLines(req.job)

jobSkillsText == JobSkillsText(req.job)

cleanJobTitle == CleanJobTitle(req.job)

requestedBatchCount == req.batchCount

isFirstQuestion == req.conversation = << >>

SkipSentinel == <<"[SKIP_REQUEST]">>

\* ------------------------------------------------------------------------
\* Prompt assembly.  A message content is a sequence of parts; a part is a
\* fixed block of prompt text (src "rule") or request data, tagged with the
\* place the data comes from.
\* ------------------------------------------------------------------------

Rule(name) == [src |-> "rule", text |-> <<name>>]

Data(src, text) == [src |-> src, text |-> text]

Msg(role, content) == [role |-> role, content |-> content]

SystemPromptFor(plan, mode, batchCount, jobLines, skillsText, resumeLines) ==
  <<Rule("MODE " \o mode)>>
  \o (IF jobLines # << >>
      THEN <<Rule("PRIORITY")>>
             \o (IF skillsText # Empty
                 THEN <<Rule("REQUIRED SKILLS"), Data("job", skillsText)>>
                 ELSE << >>)
      ELSE << >>)
  \o <<Rule(IF batchCount > 1 THEN "RULES BATCH" ELSE "RULES ONE")>>
  \o (IF jobLines # << >> THEN <<Rule("CRITICAL JOB ONLY")>>
      ELSE IF ~isStarterOrFree(plan) THEN <<Rule("PROBE RESUME")>>
      ELSE << >>)
  \o (IF ~isStarterOrFree(plan) /\ resumeLines # << >>
      THEN <<Rule("RESUME CORE SKILLS")>> ELSE << >>)
  \o (IF isStarterOrFree(plan)
      THEN <<Rule("STARTER PACK")>>
             \o (IF mode = "strict" THEN <<Rule("STARTER_PACK_STRICT_RULE")>>
                 ELSE << >>)
      ELSE << >>)
  \o <<Rule("ANTI-HALLUCINATION")>>
  \o (IF jobLines # << >>
      THEN <<Rule("STRICT JOB SCOPE"), Rule("FLOW " \o mode)>>
      ELSE << >>)

systemPromptWith(resumeLines) ==
  SystemPromptFor(req.plan, req.interviewMode, requestedBatchCount, jobPrompt,
                  jobSkillsText, resumeLines)

systemPrompt == systemPromptWith(resumePrompt)

\* Lines of the job prompt and of the resume summary copied into the payload.
ShortJobLines == 4
ShortResumeLines == 3

shortJob == Flatten(Take(jobPrompt, ShortJobLines))

shortResumeOf(resumeLines) == Flatten(Take(resumeLines, ShortResumeLines))

shortResume == shortResumeOf(resumePrompt)

batchInstruction ==
  IF requestedBatchCount > 1 THEN <<Rule("OUTPUT FORMAT |||")>> ELSE << >>

\* userContent of the first call
userContent ==
  IF bodyUserAnswer = SkipSentinel
  THEN <<Rule("SKIP INSTRUCTION")>> \o batchInstruction
  ELSE IF conversationContext(req.conversation) # Empty
  THEN <<Data("conversation", conversationContext(req.conversation)),
         Rule("LATEST RESPONSE WAS"), Data("answer", bodyUserAnswer)>>
         \o batchInstruction
  ELSE <<Rule("CANDIDATE ANSWERED"), Data("answer", bodyUserAnswer),
         Rule("ASK FOLLOW-UP ON JOB")>> \o batchInstruction

\* user message of the format, valid-question and repeat retries
retryUserContent(closing) ==
  IF conversationContext(req.conversation) # Empty
  THEN <<Data("conversation", conversationContext(req.conversation)),
         Rule("LATEST RESPONSE WAS"), Data("answer", req.userAnswer)>>
  ELSE <<Rule("CANDIDATE ANSWERED"), Data("answer", req.userAnswer),
         Rule(closing)>>

\* The interviewer turn that the clarification branch repeats or rephrases:
\* the latest turn of role 'assistant' that looks like a question, else
\* req.body.currentQuestion, else the latest 'assistant' turn longer than 10
\* characters.
QuestionLikeMinChars == 30
AnyAssistantMinChars == 10

isActualQuestion(text) ==
  \/ \E i \in 1..Len(text) : text[i] = "?"
  \/ CharLen(text) > QuestionLikeMinChars
  \/ Lower(text[1]) \in {"what", "how", "why", "describe"}
  \/ StartsWith(LowerText(text), <<"can", "you">>)
  \/ StartsWith(LowerText(text), <<"tell", "me">>)

lastQuestion ==
  LET conv == req.conversation
      first == {i \in 1..Len(conv) :
                  conv[i].type = "assistant" /\ conv[i].text # Empty
                  /\ isActualQuestion(conv[i].text)}
      second == {i \in 1..Len(conv) :
                   conv[i].type = "assistant" /\ conv[i].text # Empty
                   /\ CharLen(conv[i].text) > AnyAssistantMinChars}
      latest(S) == conv[CHOOSE i \in S : \A j \in S : j <= i].text
  IN  IF first # {} THEN latest(first)
      ELSE IF req.currentQuestion # Empty THEN req.currentQuestion
      ELSE IF second # {} THEN latest(second)
      ELSE Empty

\* The messages of each kind of Generation Client call, given the lines of
\* the resume summary held when the call is made.
MessagesFor(kind, resumeLines) ==
  CASE kind = "initial" ->
         <<Msg("system", systemPromptWith(resumeLines))>>
         \o (IF shortJob # Empty
             THEN <<Msg("system", <<Rule("JOB SUMMARY"), Data("job", shortJob)>>)>>
             ELSE << >>)
         \o (IF shortResumeOf(resumeLines) # Empty
             THEN <<Msg("system", <<Rule("RESUME SUMMARY"),
                                    Data("resume", shortResumeOf(resumeLines))>>)>>
             ELSE << >>)
         \o <<Msg("user", userContent)>>
    [] kind = "format" ->
         <<Msg("system", Append(systemPromptWith(resumeLines),
                                Rule("EXACTLY ONE QUESTION"))),
           Msg("user", retryUserContent("ASK FOLLOW-UP ON JOB UNDER 60 WORDS"))>>
    [] kind = "hallucination" ->
         <<Msg("system", Append(systemPromptWith(resumeLines),
                                Rule("CRITICAL INSTRUCTION"))),
           Msg("user", <<Rule("ASK ONE QUESTION ABOUT JOB REQUIREMENTS")>>)>>
    [] kind = "valid" ->
         <<Msg("system", Append(systemPromptWith(resumeLines),
                                Rule("START WITH INTERROGATIVE"))),
           Msg("user", retryUserContent("ASK FOLLOW-UP ON JOB UNDER 60 WORDS"))>>
    [] kind = "repeat" ->
         <<Msg("system",
               systemPromptWith(resumeLines)
                 \o <<Rule("DO NOT REPEAT"),
                      Data("conversation",
                           Flatten(recentAssistantQuestions(req.conversation)))>>),
           Msg("user", retryUserContent("ASK FOLLOW-UP ON EXPERIENCE"))>>
    [] kind = "company" ->
         <<Msg("system", <<Rule("COMPANY QUESTION EXPERT")>>),
           Msg("user", <<Rule("COMPANY QUESTIONS " \o req.interviewMode),
                         Data("job", TargetJobCompany(req.job))>>)>>
    [] kind = "rephrase" ->
         <<Msg("system", <<Rule("REPHRASE MORE CLEARLY")>>),
           Msg("user", <<Data("conversation", lastQuestion)>>)>>

Messages(kind) == MessagesFor(kind, resumePrompt)

\* ------------------------------------------------------------------------
\* Fallback questions
\* ------------------------------------------------------------------------

\* The fallback of the hallucination and valid-question stages
safeFallback ==
  IF jobSkillsText # Empty
  THEN <<"Which", "of", "these", "required", "skills", "have", "you", "used",
         "most", ":">> \o jobSkillsText \o <<"?">>
  ELSE IF cleanJobTitle # Empty
  THEN <<"Which", "requirement", "from", "the">> \o cleanJobTitle
         \o <<"job", "description", "do", "you", "have", "the", "most",
              "hands-on", "experience", "with", "?">>
  ELSE <<"Which", "requirement", "from", "the", "job", "description", "do",
         "you", "have", "the", "most", "hands-on", "experience", "with", "?">>

fallbackVariants ==
  (IF jobSkillsText # Empty
   THEN << <<"Which", "of", "these", "required", "skills", "have", "you",
             "used", "most", ":">> \o jobSkillsText \o <<"?">> >>
   ELSE << >>)
  \o (IF jobPrompt # << >>
      THEN << <<"How", "would", "you", "approach", "the", "key", "challenges",
                "mentioned", "in", "this", "role's", "requirements", "?">>,
              <<"Can", "you", "explain", "your", "experience", "with", "any",
                "of", "the", "required", "technologies", "for", "this",
                "position", "?">>,
              <<"How", "do", "you", "stay", "updated", "with", "industry",
                "trends", "relevant", "to", "this", "role", "?">>,
              <<"Describe", "a", "time", "when", "you", "solved", "a",
                "problem", "related", "to", "the", "responsibilities", "of",
                "this", "role", ".">> >>
      ELSE << <<"Tell", "me", "about", "another", "relevant", "project", "or",
                "experience", "from", "your", "background", ".">>,
              <<"What", "technical", "skills", "are", "you", "most", "proud",
                "of", "?">>,
              <<"What", "has", "been", "your", "biggest", "professional",
                "achievement", "?">>,
              <<"How", "do", "you", "approach", "learning", "new",
                "technologies", "?">> >>)

isRepeatOf(text, recent) ==
  \E i \in 1..Len(recent) : overlapSimilarity(text, recent[i]) >= RepeatThreshold

\* The first fallback variant that repeats no recent question, else the first.
uniqueFallback(recent) ==
  LET fresh == {i \in 1..Len(fallbackVariants) :
                  ~isRepeatOf(fallbackVariants[i], recent)}
  IN  IF fresh # {}
      THEN fallbackVariants[CHOOSE i \in fresh : \A j \in fresh : i <= j]
      ELSE fallbackVariants[1]

\* The fallback used when the sanitized question is empty
finalFallback ==
  IF cleanJobTitle # Empty
  THEN <<"Tell", "me", "about", "a", "project", "or", "task", "where", "you",
         "used", "the", "key", "technologies", "for", "the">>
         \o cleanJobTitle \o <<"role", ".">>
  ELSE FinalFallbackNoTitle

\* The role named by the first line of the job prompt that holds "Role:"
jobRole ==
  LET isRole(l) == Includes(l, <<"Role", ":">>)
      found == {i \in 1..Len(jobPrompt) : isRole(jobPrompt[i])}
      line == jobPrompt[CHOOSE i \in found : \A j \in found : i <= j]
      after == SubSeq(line, FirstIndex(line, {":"}) + 1, Len(line))
      next == FirstIndex(after, {":"})
      role == IF next = 0 THEN after ELSE SubSeq(after, 1, next - 1)
  IN  IF FullJobDescription(req.job) # Empty /\ found # {} /\ role # Empty
      THEN role ELSE <<"this", "role">>

introQuestion ==
  IF req.interviewMode = "friendly"
  THEN IF req.job.company # Empty
       THEN <<"INTRO FRIENDLY RELEVANT TO">> \o req.job.company
       ELSE <<"INTRO FRIENDLY RELATED TO">> \o jobRole
  ELSE IF req.job.company # Empty
       THEN <<"INTRO STANDARD RELEVANT TO">> \o req.job.company \o <<"?">>
       ELSE <<"INTRO STANDARD RELATES TO">> \o jobRole \o <<"?">>

\* ------------------------------------------------------------------------
\* The handler
\* ------------------------------------------------------------------------

\* No application of extractBatchQuestions is under way.
BatchIdle ==
  /\ rawText = Empty
  /\ desiredCount = 0
  /\ batchQuestions = << >>
  /\ batchDone = FALSE

\* No request is being handled by the /interview handler.
NoRequest ==
  [plan |-> "VALUE", interviewMode |-> "friendly", job |-> NoJob,
   resumeId |-> "", conversation |-> << >>, userAnswer |-> AnswerNormal,
   batchCount |-> 1, currentQuestion |-> Empty]

InterviewIdle ==
  /\ req = NoRequest
  /\ pc = "idle"
  /\ bodyUserAnswer = Empty
  /\ resumePrompt = << >>
  /\ fullResumeText = Empty
  /\ companyQuestionContext = Empty
  /\ aiResponseRaw = Empty
  /\ trimmedResponse = Empty
  /\ calls = << >>
  /\ status = 0
  /\ route = ""
  /\ response = Empty
  /\ responses = << >>

\* No voice session is open.
VoiceIdle ==
  /\ limits = [handles |-> 0, generations |-> 0, transcripts |-> {},
               streams |-> {}, faults |-> FALSE, observed |-> FALSE]
  /\ socket = "closed"
  /\ deepgramLive = 0
  /\ handles = << >>
  /\ conversationHistory = << >>
  /\ currentTranscript = Empty
  /\ isProcessing = FALSE
  /\ inFlight = << >>
  /\ started = 0
  /\ lastFinal = [handle |-> 0, outcome |-> "none"]
  /\ lastGeneration = [utterance |-> Empty, fullResponse |-> Empty]
  /\ exchange = [received |-> "none", sent |-> << >>, stopped |-> FALSE]

\* The phase tracker has been given no conversation.
PhaseIdle ==
  /\ phaseConversation = << >>
  /\ phaseSeen = ""

\* No payment order is being verified.
PaymentIdle ==
  /\ paymentDoc = [status |-> "none", creditsGranted |-> 0]
  /\ payerDoc = [credits |-> 0]
  /\ creditsAtOrder = 0
  /\ verifyRequests = << >>

\* No chat is being created.
ChatIdle ==
  /\ userDoc = [credits |-> 0, plan |-> "FREE", resetDue |-> FALSE]
  /\ creditsHeld = 0
  /\ chatDocs = 0
  /\ chatRequests = << >>

ExtraIdle == PhaseIdle /\ PaymentIdle /\ ChatIdle

Init ==
  /\ BatchIdle
  /\ VoiceIdle
  /\ ExtraIdle
  /\ req \in Requests
  /\ pc = "start"
  /\ bodyUserAnswer = req.userAnswer
  /\ resumePrompt = << >>
  /\ fullResumeText = Empty
  /\ companyQuestionContext = Empty
  /\ aiResponseRaw = Empty
  /\ trimmedResponse = Empty
  /\ calls = << >>
  /\ status = 0
  /\ route = ""
  /\ response = Empty
  /\ responses = << >>

Call(kind, res) == [kind |-> kind, result |-> res.kind]

\* res.status(code).json(...) followed by return
Respond(code, via, text, list) ==
  /\ status' = code
  /\ route' = via
  /\ response' = text
  /\ responses' = list
  /\ pc' = "done"

NoResponse == UNCHANGED <<status, route, response, responses>>

\* The server has no Deepgram key: 501 before anything else.
TTSUnavailable ==
  /\ pc = "start"
  /\ Respond(501, "tts-unavailable", Empty, << >>)
  /\ UNCHANGED <<outsideInterview, req, bodyUserAnswer, resumePrompt, fullResumeText,
                 companyQuestionContext, aiResponseRaw, trimmedResponse, calls>>

\* Resume loading: skipped for Starter/Free, 400 when the id names no resume.
LoadResume ==
  /\ pc = "start"
  /\ IF isStarterOrFree(req.plan) \/ req.resumeId = ""
     THEN /\ pc' = "job"
          /\ NoResponse
          /\ UNCHANGED <<resumePrompt, fullResumeText>>
     ELSE IF req.resumeId \in DOMAIN Resumes
     THEN LET resume == Resumes[req.resumeId]
              summary == createResumeSummary(resume.analysis, resume.rawText)
          IN  /\ fullResumeText' = resume.rawText
              /\ resumePrompt' =
                   IF summary = << >> /\ resume.rawText # Empty
                   THEN << <<"Resume", "excerpt", ":">>
                             \o sanitizeText(resume.rawText) >>
                   ELSE summary
              /\ pc' = "job"
              /\ NoResponse
     ELSE /\ Respond(400, "resume-not-found", Empty, << >>)
          /\ UNCHANGED <<resumePrompt, fullResumeText>>
  /\ UNCHANGED <<outsideInterview, req, bodyUserAnswer, companyQuestionContext, aiResponseRaw,
                 trimmedResponse, calls>>

\* Job loading; for other plans than Starter/Free a target job with a company
\* costs one call for company questions, whose failure is swallowed.
LoadJob ==
  /\ pc = "job"
  /\ IF ~isStarterOrFree(req.plan) /\ TargetJobCompany(req.job) # Empty
     THEN \E res \in CompanyResults :
            /\ calls' = Append(calls, Call("company", res))
            /\ companyQuestionContext' =
                 IF res.kind = "text" /\ res.text # Empty
                 THEN <<"COMPANY CONTEXT", ":">> \o TargetJobCompany(req.job)
                        \o res.text
                 ELSE Empty
     ELSE UNCHANGED <<calls, companyQuestionContext>>
  /\ pc' = "validate"
  /\ NoResponse
  /\ UNCHANGED <<outsideInterview, req, bodyUserAnswer, resumePrompt, fullResumeText,
                 aiResponseRaw, trimmedResponse>>

\* The introduction shortcut taken before the plan validation.
ValidateIntroFirst ==
  /\ pc = "validate"
  /\ IF isFirstQuestion
     THEN Respond(200, "introduction", introQuestion, << >>)
     ELSE IF jobPrompt = << >>
             /\ (isStarterOrFree(req.plan) \/ resumePrompt = << >>)
     THEN Respond(400, "starter-needs-job", Empty, << >>)
     ELSE pc' = "clarify" /\ NoResponse
  /\ UNCHANGED <<outsideInterview, req, bodyUserAnswer, resumePrompt,
                 fullResumeText, companyQuestionContext, aiResponseRaw,
                 trimmedResponse, calls>>

\* Plan validation, removal of the resume for Starter/Free, sanitizing, and
\* the templated introduction for an empty conversation.
Validate ==
  /\ pc = "validate"
  /\ IF isStarterOrFree(req.plan) /\ jobPrompt = << >>
     THEN /\ Respond(400, "starter-needs-job", Empty, << >>)
          /\ UNCHANGED <<resumePrompt, fullResumeText>>
     ELSE IF ~isStarterOrFree(req.plan) /\ jobPrompt = << >>
             /\ resumePrompt = << >>
     THEN /\ Respond(400, "needs-job-or-resume", Empty, << >>)
          /\ UNCHANGED <<resumePrompt, fullResumeText>>
     ELSE LET kept == IF isStarterOrFree(req.plan) THEN << >> ELSE resumePrompt
              noted == IF jobPrompt # << >> /\ kept # << >>
                       THEN << Empty, Empty, <<"NOTE PRIORITIZE TARGET JOB">> >>
                              \o kept
                       ELSE kept
          IN  /\ resumePrompt' = SanitizeLines(noted)
              /\ fullResumeText' =
                   IF isStarterOrFree(req.plan) THEN Empty
                   ELSE sanitizeText(fullResumeText)
              /\ IF isFirstQuestion
                 THEN Respond(200, "introduction", introQuestion, << >>)
                 ELSE pc' = "clarify" /\ NoResponse
  /\ UNCHANGED <<outsideInterview, req, bodyUserAnswer, companyQuestionContext, aiResponseRaw,
                 trimmedResponse, calls>>

\* The acknowledgements put before a repeated question, one picked at random
repeatPrefixes ==
  {<<"Sure", ",", "let", "me", "repeat", "that", ":">>,
   <<"Of", "course", "!", "Here's", "the", "question", "again", ":">>,
   <<"No", "problem", ",", "here", "it", "is", "again", ":">>,
   <<"Absolutely", "!">>}

\* Skip, repeat and elaborate requests.
Clarify ==
  /\ pc = "clarify"
  /\ LET skip == isSkipRequest(req.userAnswer)
         listFor(text) == IF requestedBatchCount > 1 THEN <<text>> ELSE << >>
     IN  IF isRepeatRequest(req.userAnswer) \/ isElaborateRequest(req.userAnswer)
         THEN /\ UNCHANGED bodyUserAnswer
              /\ IF lastQuestion = Empty
                 THEN /\ Respond(200, "no-question-to-clarify",
                                 <<"HAPPY TO HELP">>, listFor(<<"HAPPY TO HELP">>))
                      /\ UNCHANGED calls
                 ELSE IF isRepeatRequest(req.userAnswer)
                 THEN /\ \E prefix \in repeatPrefixes :
                           Respond(200, "repeat", prefix \o lastQuestion,
                                   listFor(prefix \o lastQuestion))
                      /\ UNCHANGED calls
                 ELSE \E res \in RetryResults :
                        LET text == IF res.kind = "text"
                                    THEN IF res.text # Empty THEN res.text
                                         ELSE lastQuestion
                                    ELSE <<"Let", "me", "clarify", ":">>
                                           \o lastQuestion
                        IN  /\ calls' = Append(calls, Call("rephrase", res))
                            /\ Respond(200, "elaborate", text, listFor(text))
         ELSE /\ bodyUserAnswer' = IF skip THEN SkipSentinel ELSE bodyUserAnswer
              /\ pc' = "generate"
              /\ NoResponse
              /\ UNCHANGED calls
  /\ UNCHANGED <<outsideInterview, req, resumePrompt, fullResumeText, companyQuestionContext,
                 aiResponseRaw, trimmedResponse>>

\* A faulty variant of InitialThrew: the error of the first call is swallowed
\* and the validation loop runs on an empty candidate.
InitialThrewSoft ==
  /\ aiResponseRaw' = Empty
  /\ trimmedResponse' = Empty
  /\ pc' = "format"
  /\ NoResponse

\* The first call threw: 502, nothing else is done.
InitialThrew ==
  /\ Respond(502, "llm-provider-error", Empty, << >>)
  /\ UNCHANGED <<aiResponseRaw, trimmedResponse>>

\* The first call resolved to res: a malformed completion ends in the outer
\* catch (500); a batch request answers from the raw text; a single-question
\* request enters the validation loop.
InitialReturned(res) ==
  IF res.kind = "malformed"
  THEN /\ Respond(500, "failed-to-get-response", Empty, << >>)
       /\ UNCHANGED <<aiResponseRaw, trimmedResponse>>
  ELSE IF requestedBatchCount > 1
  THEN LET found == extractBatchQuestions(res.text, requestedBatchCount)
           fallbackQuestion ==
             enforceQuestionOnly(clampWords(res.text, RawMaxWords),
                                 QuestionMaxWords)
           normalized == IF found # << >> THEN found
                         ELSE <<fallbackQuestion>>
       IN  /\ Respond(200, "batch", normalized[1], normalized)
           /\ aiResponseRaw' = res.text
           /\ UNCHANGED trimmedResponse
  ELSE /\ aiResponseRaw' = res.text
       /\ trimmedResponse' =
            enforceQuestionOnly(clampWords(res.text, RawMaxWords),
                                QuestionMaxWords)
       /\ pc' = "format"
       /\ NoResponse

\* Outcomes of the first call: those of any call and, when a batch was asked
\* for, the contents in the batch format.
InitialResults ==
  IF requestedBatchCount > 1
  THEN LLMResults \cup {[kind |-> "text", text |-> t] : t \in BatchOutputs}
  ELSE LLMResults

\* The first, mandatory generation call, and the batch branch.
Generate ==
  /\ pc = "generate"
  /\ \E res \in InitialResults :
       /\ calls' = Append(calls, Call("initial", res))
       /\ IF res.kind = "throw" THEN InitialThrew ELSE InitialReturned(res)
  /\ UNCHANGED <<outsideInterview, req, bodyUserAnswer, resumePrompt, fullResumeText,
                 companyQuestionContext>>

hasNonQuestionBefore(raw) ==
  LET firstQ == FirstIndex(raw, {"?"})
  IN  firstQ > 0 /\ \E i \in 1..(firstQ - 1) : raw[i] \in StopMarks

hasExtraAfter(raw) ==
  LET firstQ == FirstIndex(raw, {"?"})
  IN  firstQ > 0 /\ firstQ < Len(raw)

formatFailed(raw, trimmed) ==
  \/ trimmed = Empty
  \/ ~EndsWithQ(trimmed)
  \/ hasNonQuestionBefore(raw)
  \/ hasExtraAfter(raw)
  \/ isAnswerLike(raw) \/ isAnswerLike(trimmed)

\* The candidate after the format retry returned res.
afterFormatRetry(res, current) ==
  LET regenTrim == enforceQuestionOnly(clampWords(res.text, RawMaxWords),
                                       QuestionMaxWords)
  IN  IF res.kind = "text" /\ regenTrim # Empty /\ EndsWithQ(regenTrim)
         /\ ~hasNonQuestionBefore(res.text) /\ ~hasExtraAfter(res.text)
      THEN regenTrim ELSE current

\* A faulty variant of CheckFormat: a format retry that fails is tried again.
CheckFormatLoop ==
  /\ pc = "format"
  /\ IF formatFailed(aiResponseRaw, trimmedResponse)
     THEN \E res \in RetryResults :
            /\ calls' = Append(calls, Call("format", res))
            /\ trimmedResponse' = afterFormatRetry(res, trimmedResponse)
            /\ pc' = IF res.kind = "text" THEN "hallucination" ELSE "format"
     ELSE /\ UNCHANGED <<calls, trimmedResponse>>
          /\ pc' = "hallucination"
  /\ NoResponse
  /\ UNCHANGED <<outsideInterview, req, bodyUserAnswer, resumePrompt, fullResumeText,
                 companyQuestionContext, aiResponseRaw>>

CheckFormat ==
  /\ pc = "format"
  /\ IF formatFailed(aiResponseRaw, trimmedResponse)
     THEN \E res \in RetryResults :
            /\ calls' = Append(calls, Call("format", res))
            /\ trimmedResponse' = afterFormatRetry(res, trimmedResponse)
     ELSE UNCHANGED <<calls, trimmedResponse>>
  /\ pc' = "hallucination"
  /\ NoResponse
  /\ UNCHANGED <<outsideInterview, req, bodyUserAnswer, resumePrompt, fullResumeText,
                 companyQuestionContext, aiResponseRaw>>

\* The text the hallucination check compares against; its parts are joined
\* by spaces, so it is never the empty string.
allowedContext ==
  Flatten(jobPrompt) \o <<" ">> \o Flatten(resumePrompt) \o <<" ">>
    \o companyQuestionContext \o <<" ">>
    \o conversationContext(req.conversation)

\* The candidate after the anti-hallucination retry returned res.
afterHallucinationRetry(res, current) ==
  IF res.kind = "text"
  THEN LET antiTrim == enforceQuestionOnly(clampWords(res.text, RawMaxWords),
                                           QuestionMaxWords)
           stillHall == detectHallucinatedEntities(res.text, allowedContext) # {}
       IN  IF antiTrim # Empty /\ EndsWithQ(antiTrim) /\ ~stillHall
           THEN antiTrim
           ELSE enforceQuestionOnly(safeFallback, QuestionMaxWords)
  ELSE current

CheckHallucination ==
  /\ pc = "hallucination"
  /\ IF detectHallucinatedEntities(
          IF trimmedResponse # Empty THEN trimmedResponse ELSE aiResponseRaw,
          allowedContext) # {}
     THEN \E res \in RetryResults :
            /\ calls' = Append(calls, Call("hallucination", res))
            /\ trimmedResponse' = afterHallucinationRetry(res, trimmedResponse)
     ELSE UNCHANGED <<calls, trimmedResponse>>
  /\ pc' = "valid"
  /\ NoResponse
  /\ UNCHANGED <<outsideInterview, req, bodyUserAnswer, resumePrompt, fullResumeText,
                 companyQuestionContext, aiResponseRaw>>

\* The candidate after the valid-question retry returned res.
afterValidRetry(res, current) ==
  IF res.kind = "text"
  THEN LET regenTrim == enforceQuestionOnly(clampWords(res.text, RawMaxWords),
                                            QuestionMaxWords)
       IN  IF isValidQuestion(regenTrim) THEN regenTrim
           ELSE enforceQuestionOnly(safeFallback, QuestionMaxWords)
  ELSE current

CheckValidQuestion ==
  /\ pc = "valid"
  /\ IF ~isValidQuestion(trimmedResponse)
     THEN \E res \in RetryResults :
            /\ calls' = Append(calls, Call("valid", res))
            /\ trimmedResponse' = afterValidRetry(res, trimmedResponse)
     ELSE UNCHANGED <<calls, trimmedResponse>>
  /\ pc' = "repeat"
  /\ NoResponse
  /\ UNCHANGED <<outsideInterview, req, bodyUserAnswer, resumePrompt, fullResumeText,
                 companyQuestionContext, aiResponseRaw>>

\* The candidate after the no-repeat retry returned res.
afterRepeatRetry(res, recent) ==
  LET altTrim == enforceQuestionOnly(clampWords(res.text, RawMaxWords),
                                     QuestionMaxWords)
  IN  IF res.kind = "text" /\ isValidQuestion(altTrim)
         /\ ~isRepeatOf(altTrim, recent)
      THEN altTrim
      ELSE enforceQuestionOnly(uniqueFallback(recent), QuestionMaxWords)

CheckRepeat ==
  /\ pc = "repeat"
  /\ LET recent == recentAssistantQuestions(req.conversation)
     IN  IF recent # << >> /\ isRepeatOf(trimmedResponse, recent)
         THEN \E res \in RetryResults :
                /\ calls' = Append(calls, Call("repeat", res))
                /\ trimmedResponse' = afterRepeatRetry(res, recent)
         ELSE UNCHANGED <<calls, trimmedResponse>>
  /\ pc' = "accept"
  /\ NoResponse
  /\ UNCHANGED <<outsideInterview, req, bodyUserAnswer, resumePrompt, fullResumeText,
                 companyQuestionContext, aiResponseRaw>>

\* A faulty variant of finalQuestion without the final fallback.
finalQuestionNoFallback(candidate) == sanitizeText(candidate)

\* The question sent: the sanitized candidate, or the final fallback.
finalQuestion(candidate) ==
  IF sanitizeText(candidate) = Empty THEN finalFallback
  ELSE sanitizeText(candidate)

Accept ==
  /\ pc = "accept"
  /\ trimmedResponse' = finalQuestion(trimmedResponse)
  /\ Respond(200, "accept", finalQuestion(trimmedResponse), << >>)
  /\ UNCHANGED <<outsideInterview, req, bodyUserAnswer, resumePrompt, fullResumeText,
                 companyQuestionContext, aiResponseRaw, calls>>

Next ==
  \/ TTSUnavailable
  \/ LoadResume
  \/ LoadJob
  \/ Validate
  \/ Clarify
  \/ Generate
  \/ CheckFormat
  \/ CheckHallucination
  \/ CheckValidQuestion
  \/ CheckRepeat
  \/ Accept

Spec == Init /\ [][Next]_vars

\* ------------------------------------------------------------------------
\* extractBatchQuestions applied to arbitrary arguments
\* ------------------------------------------------------------------------

\* Longest raw text, in tokens, and largest desired count tried.
MaxRawLen == 6
MaxDesired == 3

\* Tokens of the raw texts: two words, the question mark, the full stop and
\* the "|||" separator.
RawTokens == {"What", "queues", "?", ".", "|||"}

RECURSIVE SeqsUpTo(_, _)
SeqsUpTo(S, n) ==
  IF n = 0 THEN {<< >>}
  ELSE LET shorter == SeqsUpTo(S, n - 1)
       IN  shorter \cup {Append(t, x) : t \in shorter, x \in S}

RawTexts == SeqsUpTo(RawTokens, MaxRawLen)

DesiredCounts == 0..MaxDesired

BatchInit ==
  /\ InterviewIdle
  /\ VoiceIdle
  /\ ExtraIdle
  /\ rawText \in RawTexts
  /\ desiredCount \in DesiredCounts
  /\ batchQuestions = << >>
  /\ batchDone = FALSE

Extract ==
  /\ ~batchDone
  /\ batchQuestions' = extractBatchQuestions(rawText, desiredCount)
  /\ batchDone' = TRUE
  /\ UNCHANGED <<interviewVars, voiceVars, extraVars, rawText, desiredCount>>

BatchNext == Extract

BatchSpec == BatchInit /\ [][BatchNext]_vars

\* ------------------------------------------------------------------------
\* Voice streaming session: one connection of /api/voice-stream
\* (src/routes/voiceStream.js)
\* ------------------------------------------------------------------------

\* conversationHistory.slice(-20), and the longest feedback that is spoken.
VoiceHistoryLimit == 20
FeedbackMaxChars == 20

\* Most start_stream messages of a session, and most generations started in
\* a session with faults and in a long session without.
MaxHandles == 2
MaxGenerations == 2
MaxLongGenerations == 11

FeedbackTag == "[FEEDBACK:"
QuestionTag == "[QUESTION:"

\* Token streams of the provider; each token is the text of one delta.
StreamTagged ==
  << <<FeedbackTag>>, <<"Good", "]">>, << >>,
     <<QuestionTag, "Why", "?", "]">> >>

StreamPlain == << <<"Why", "?">> >>

StreamSilent == << << >> >>

TranscriptKafka == <<"I", "use", "Kafka">>
TranscriptQueues == <<"queues">>

\* A short session in which anything may fail, and a long one in which
\* nothing does.
FaultySession ==
  [handles |-> MaxHandles, generations |-> MaxGenerations,
   transcripts |-> {TranscriptKafka},
   streams |-> {StreamTagged, StreamPlain, StreamSilent}, faults |-> TRUE,
   observed |-> FALSE]

\* The same session with every exchange with the client recorded.
ObservedSession == [FaultySession EXCEPT !.observed = TRUE]

LongSession ==
  [handles |-> 1, generations |-> MaxLongGenerations,
   transcripts |-> {TranscriptKafka, TranscriptQueues},
   streams |-> {StreamPlain}, faults |-> FALSE, observed |-> FALSE]

NoGeneration == [utterance |-> Empty, fullResponse |-> Empty]

NoFinal == [handle |-> 0, outcome |-> "none"]

NoExchange == [received |-> "none", sent |-> << >>, stopped |-> FALSE]

VoiceInit ==
  /\ InterviewIdle
  /\ BatchIdle
  /\ ExtraIdle
  /\ limits \in {FaultySession, LongSession}
  /\ exchange = NoExchange
  /\ socket = "open"
  /\ deepgramLive = 0
  /\ handles = << >>
  /\ conversationHistory = << >>
  /\ currentTranscript = Empty
  /\ isProcessing = FALSE
  /\ inFlight = << >>
  /\ started = 0
  /\ lastFinal = NoFinal
  /\ lastGeneration = NoGeneration

\* The same connection, observed.
VoiceObservedInit ==
  /\ InterviewIdle
  /\ BatchIdle
  /\ ExtraIdle
  /\ limits = ObservedSession
  /\ exchange = NoExchange
  /\ socket = "open"
  /\ deepgramLive = 0
  /\ handles = << >>
  /\ conversationHistory = << >>
  /\ currentTranscript = Empty
  /\ isProcessing = FALSE
  /\ inFlight = << >>
  /\ started = 0
  /\ lastFinal = NoFinal
  /\ lastGeneration = NoGeneration

outsideVoice == <<interviewVars, batchVars, extraVars, limits>>

\* ws.send: it can throw only once the socket is no longer open.
SendOutcomes == IF socket = "open" THEN {"sent"} ELSE {"sent", "threw"}

\* The event handled by the step and the events sent to the client in it,
\* kept in an observed session; stopped is true from a stream_stopped to the
\* next start_stream.
Exchanged(received, sent) ==
  exchange' =
    IF limits.observed
    THEN [received |-> received, sent |-> sent,
          stopped |-> IF received = "stop_stream" THEN TRUE
                      ELSE IF received = "start_stream" THEN FALSE
                      ELSE exchange.stopped]
    ELSE exchange

\* One send: the event, or nothing when the send throws.
Sending(event) ==
  {IF sending = "sent" THEN <<event>> ELSE << >> : sending \in SendOutcomes}

\* The error event of generateAIResponse's catch, and that of its caller's
\* catch when the first send throws.
Reported(received) ==
  \E sent \in Sending("error") : Exchanged(received, sent)

\* setupDeepgramStream reports a failure and returns without the handle.
startRepliesSilentOnFailure(opened) ==
  IF opened THEN <<"stream_ready">> ELSE <<"error">>

\* What start_stream is answered with.
startReplies(opened) ==
  IF opened THEN <<"stream_ready">> ELSE <<"error", "stream_ready">>

RemoveAt(s, i) == SubSeq(s, 1, i - 1) \o SubSeq(s, i + 1, Len(s))

\* deepgramLive.finish(); deepgramLive = null
finishCurrent ==
  IF deepgramLive # 0
  THEN /\ handles' = [handles EXCEPT ![deepgramLive] = "finished"]
       /\ deepgramLive' = 0
  ELSE UNCHANGED <<handles, deepgramLive>>

\* 'start_stream': setupDeepgramStream opens a handle and keeps it in
\* deepgramLive, unless opening throws.
StartStream ==
  /\ socket = "open"
  /\ Len(handles) < limits.handles
  /\ \E opened \in (IF limits.faults THEN BOOLEAN ELSE {TRUE}) :
       /\ Exchanged("start_stream", startReplies(opened))
       /\ IF opened
          THEN /\ handles' = Append(handles, "live")
               /\ deepgramLive' = Len(handles) + 1
          ELSE UNCHANGED <<handles, deepgramLive>>
  /\ UNCHANGED <<outsideVoice, socket, conversationHistory, currentTranscript,
                 isProcessing, inFlight, started, lastFinal, lastGeneration>>

\* 'stop_stream'
StopStream ==
  /\ socket = "open"
  /\ finishCurrent
  /\ Exchanged("stop_stream", <<"stream_stopped">>)
  /\ UNCHANGED <<outsideVoice, socket, conversationHistory, currentTranscript,
                 isProcessing, inFlight, started, lastFinal, lastGeneration>>

\* A binary message: forwarded to the handle in deepgramLive, if any.
Audio ==
  /\ socket = "open"
  /\ Exchanged("audio", << >>)
  /\ UNCHANGED <<outsideVoice, socket, deepgramLive, handles,
                 conversationHistory, currentTranscript, isProcessing,
                 inFlight, started, lastFinal, lastGeneration>>

\* 'ping'
Ping ==
  /\ socket = "open"
  /\ Exchanged("ping", <<"pong">>)
  /\ UNCHANGED <<outsideVoice, socket, deepgramLive, handles,
                 conversationHistory, currentTranscript, isProcessing,
                 inFlight, started, lastFinal, lastGeneration>>

\* ws.on('close')
ClientClose ==
  /\ limits.faults
  /\ socket \in {"open", "failed"}
  /\ socket' = "closed"
  /\ finishCurrent
  /\ Exchanged("close", << >>)
  /\ UNCHANGED <<outsideVoice, conversationHistory, currentTranscript,
                 isProcessing, inFlight, started, lastFinal, lastGeneration>>

\* ws.on('error')
SocketError ==
  /\ limits.faults
  /\ socket = "open"
  /\ socket' = "failed"
  /\ finishCurrent
  /\ Exchanged("error", << >>)
  /\ UNCHANGED <<outsideVoice, conversationHistory, currentTranscript,
                 isProcessing, inFlight, started, lastFinal, lastGeneration>>

\* The handles whose 'Results' events can still arrive.
Emitting == {h \in DOMAIN handles : handles[h] = "live"}

\* 'Results' with is_final false: the partial transcript is sent on.
PartialTranscript ==
  /\ Emitting # {}
  /\ \E sent \in Sending("transcript_partial") :
       Exchanged("results-interim", sent)
  /\ UNCHANGED <<outsideVoice, socket, deepgramLive, handles,
                 conversationHistory, currentTranscript, isProcessing,
                 inFlight, started, lastFinal, lastGeneration>>

\* 'Results' with is_final but without speech_final: neither branch of the
\* handler is taken.
FinalSegment ==
  /\ Emitting # {}
  /\ Exchanged("results-final", << >>)
  /\ UNCHANGED <<outsideVoice, socket, deepgramLive, handles,
                 conversationHistory, currentTranscript, isProcessing,
                 inFlight, started, lastFinal, lastGeneration>>

\* generateAIResponse up to its first await: the request is on its way.
NewGeneration(userAnswer, h) ==
  [utterance |-> userAnswer, handle |-> h, at |-> "creating",
   stream |-> << >>, read |-> 0, fullResponse |-> Empty,
   feedbackText |-> Empty, questionText |-> Empty,
   inFeedback |-> FALSE, inQuestion |-> FALSE, chunks |-> << >>]

\* The handler with the isProcessing test left out.
FinalTranscriptUnguarded ==
  /\ started < limits.generations
  /\ \E h \in Emitting, transcript \in limits.transcripts :
       /\ currentTranscript' = transcript
       /\ isProcessing' = TRUE
       /\ inFlight' = Append(inFlight, NewGeneration(transcript, h))
       /\ started' = started + 1
       /\ lastFinal' = [handle |-> h, outcome |-> "started"]
  /\ UNCHANGED <<outsideVoice, socket, deepgramLive, handles,
                 conversationHistory, lastGeneration, exchange>>

\* The handler keeping the transcript it skips in the history.
FinalTranscriptKeepsSkipped ==
  /\ \E h \in Emitting, transcript \in limits.transcripts :
       /\ currentTranscript' = transcript
       /\ IF isProcessing
          THEN /\ lastFinal' = [handle |-> h, outcome |-> "dropped"]
               /\ conversationHistory' =
                    LastN(Append(conversationHistory,
                                 [role |-> "user", content |-> transcript]),
                          VoiceHistoryLimit)
               /\ UNCHANGED <<isProcessing, inFlight, started>>
          ELSE /\ started < limits.generations
               /\ isProcessing' = TRUE
               /\ inFlight' = Append(inFlight, NewGeneration(transcript, h))
               /\ started' = started + 1
               /\ lastFinal' = [handle |-> h, outcome |-> "started"]
               /\ UNCHANGED conversationHistory
  /\ UNCHANGED <<outsideVoice, socket, deepgramLive, handles, lastGeneration,
                 exchange>>

\* 'Results' with is_final and speech_final, from any handle still emitting:
\* the transcript is sent on; then it is skipped while a generation is being
\* processed, and otherwise starts one.
FinalTranscript ==
  /\ \E h \in Emitting, transcript \in limits.transcripts,
        sending \in SendOutcomes :
       /\ currentTranscript' = transcript
       /\ Exchanged("results-speech-final",
                    IF sending = "threw" THEN << >>
                    ELSE <<"transcript_final">>)
       /\ IF sending = "threw"
          THEN /\ lastFinal' = [handle |-> h, outcome |-> "send-failed"]
               /\ UNCHANGED <<isProcessing, inFlight, started>>
          ELSE IF isProcessing
          THEN /\ lastFinal' = [handle |-> h, outcome |-> "dropped"]
               /\ UNCHANGED <<isProcessing, inFlight, started>>
          ELSE /\ started < limits.generations
               /\ isProcessing' = TRUE
               /\ inFlight' = Append(inFlight, NewGeneration(transcript, h))
               /\ started' = started + 1
               /\ lastFinal' = [handle |-> h, outcome |-> "started"]
  /\ UNCHANGED <<outsideVoice, socket, deepgramLive, handles,
                 conversationHistory, lastGeneration>>

\* The generation that leaves isProcessing as it is when it fails.
FailStuck(g) ==
  /\ inFlight' = RemoveAt(inFlight, g)
  /\ UNCHANGED <<isProcessing, conversationHistory, lastGeneration>>

\* The failing generation leaves the answer it was given in the history.
FailKeepsAnswer(g) ==
  /\ inFlight' = RemoveAt(inFlight, g)
  /\ isProcessing' = FALSE
  /\ conversationHistory' =
       Append(conversationHistory,
              [role |-> "user", content |-> inFlight[g].utterance])
  /\ UNCHANGED lastGeneration

\* A throw inside generateAIResponse: its catch reports the error, and the
\* finally of the caller resets isProcessing whether or not that send throws.
Fail(g) ==
  /\ inFlight' = RemoveAt(inFlight, g)
  /\ isProcessing' = FALSE
  /\ UNCHANGED <<conversationHistory, lastGeneration>>

\* openai.chat.completions.create settles: a stream, or a provider error.
CreateSettles ==
  /\ \E g \in DOMAIN inFlight :
       /\ inFlight[g].at = "creating"
       /\ \/ \E s \in limits.streams :
               /\ inFlight' = [inFlight EXCEPT ![g].at = "streaming",
                                               ![g].stream = s]
               /\ Exchanged("create-returned", << >>)
               /\ UNCHANGED <<isProcessing, conversationHistory,
                              lastGeneration>>
          \/ limits.faults /\ Fail(g) /\ Reported("create-threw")
  /\ UNCHANGED <<outsideVoice, socket, deepgramLive, handles,
                 currentTranscript, started, lastFinal>>

Has(content, tag) == \E i \in DOMAIN content : content[i] = tag

\* The body of the for-await loop up to the send, for one non-empty token.
Parsed(gen, content) ==
  LET inFeedback == (gen.inFeedback \/ Has(content, FeedbackTag))
                      /\ ~Has(content, QuestionTag)
      inQuestion == gen.inQuestion \/ Has(content, QuestionTag)
  IN  [gen EXCEPT
         !.fullResponse = @ \o content,
         !.inFeedback = inFeedback,
         !.inQuestion = inQuestion,
         !.feedbackText =
            IF inFeedback /\ ~Has(content, FeedbackTag) THEN @ \o content
            ELSE @,
         !.questionText =
            IF inQuestion /\ ~Has(content, QuestionTag) THEN @ \o content
            ELSE @]

\* The chunk is sent twice.
sendChunkTwice(gen, content) ==
  [gen EXCEPT !.chunks = @ \o <<content, content>>]

\* ws.send of one ai_response_chunk
sendChunk(gen, content) == [gen EXCEPT !.chunks = Append(@, content)]

\* The stream yields its next token, or throws.
NextToken ==
  /\ \E g \in DOMAIN inFlight :
       LET gen == inFlight[g]
       IN  /\ gen.at = "streaming"
           /\ \/ /\ gen.read < Len(gen.stream)
                 /\ LET content == gen.stream[gen.read + 1]
                        taken == [gen EXCEPT !.read = @ + 1]
                    IN  IF content = Empty
                        THEN /\ inFlight' = [inFlight EXCEPT ![g] = taken]
                             /\ Exchanged("token", << >>)
                             /\ UNCHANGED <<isProcessing, conversationHistory,
                                            lastGeneration>>
                        ELSE \E sending \in SendOutcomes :
                               IF sending = "threw"
                               THEN Fail(g) /\ Reported("send-threw")
                               ELSE /\ inFlight' =
                                         [inFlight EXCEPT ![g] =
                                            sendChunk(Parsed(taken, content),
                                                      content)]
                                    /\ Exchanged("token",
                                                 <<"ai_response_chunk">>)
                                    /\ UNCHANGED <<isProcessing,
                                                   conversationHistory,
                                                   lastGeneration>>
              \/ limits.faults /\ Fail(g) /\ Reported("stream-threw")
  /\ UNCHANGED <<outsideVoice, socket, deepgramLive, handles,
                 currentTranscript, started, lastFinal>>

\* text.replace(/]/g, '').trim()
Cleaned(text) == SelectSeq(text, LAMBDA x : x # "]")

shouldGenerateAudio(gen) ==
  /\ Cleaned(gen.feedbackText) # Empty
  /\ CharLen(Cleaned(gen.feedbackText)) <= FeedbackMaxChars

\* The history keeps its oldest entries.
TrimHistoryOldest(history) == Take(history, VoiceHistoryLimit)

\* conversationHistory.slice(-20) once it is longer than 20
TrimHistory(history) == LastN(history, VoiceHistoryLimit)

\* The rest of generateAIResponse after the audio: the history is extended and
\* trimmed, ai_response_complete is sent, and the caller resets isProcessing.
Finish(g, audioBase64) ==
  LET gen == inFlight[g]
  IN  /\ conversationHistory' =
           TrimHistory(conversationHistory
                         \o <<[role |-> "user", content |-> gen.utterance],
                              [role |-> "assistant",
                               content |-> gen.fullResponse]>>)
      /\ \E sending \in SendOutcomes :
           /\ lastGeneration' =
                [utterance |-> gen.utterance,
                 fullResponse |-> gen.fullResponse,
                 stream |-> gen.stream, chunks |-> gen.chunks,
                 feedback |-> Cleaned(gen.feedbackText),
                 question |-> Cleaned(gen.questionText),
                 audioBase64 |-> audioBase64,
                 hasAudio |-> shouldGenerateAudio(gen),
                 complete |-> sending]
           /\ IF sending = "sent"
              THEN Exchanged("generation-finished",
                             <<"ai_response_complete">>)
              ELSE Reported("send-threw")
      /\ inFlight' = RemoveAt(inFlight, g)
      /\ isProcessing' = FALSE

\* The stream is exhausted: speech is requested for a short feedback, and
\* otherwise the generation finishes without audio.
StreamEnds ==
  /\ \E g \in DOMAIN inFlight :
       LET gen == inFlight[g]
       IN  /\ gen.at = "streaming"
           /\ gen.read = Len(gen.stream)
           /\ IF shouldGenerateAudio(gen)
              THEN /\ inFlight' = [inFlight EXCEPT ![g].at = "speech"]
                   /\ Exchanged("stream-ended", << >>)
                   /\ UNCHANGED <<isProcessing, conversationHistory,
                                  lastGeneration>>
              ELSE Finish(g, "null")
  /\ UNCHANGED <<outsideVoice, socket, deepgramLive, handles,
                 currentTranscript, started, lastFinal>>

\* openai.audio.speech.create and arrayBuffer settle: audio, or an error that
\* is logged and leaves the audio out.
SpeechSettles ==
  /\ \E g \in DOMAIN inFlight :
       /\ inFlight[g].at = "speech"
       /\ \E audioBase64 \in (IF limits.faults THEN {"mp3", "null"}
                              ELSE {"mp3"}) :
            Finish(g, audioBase64)
  /\ UNCHANGED <<outsideVoice, socket, deepgramLive, handles,
                 currentTranscript, started, lastFinal>>

\* The steps by which a started generation moves on.
GenerationStep == CreateSettles \/ NextToken \/ StreamEnds \/ SpeechSettles

VoiceNext ==
  \/ StartStream
  \/ StopStream
  \/ Audio
  \/ Ping
  \/ ClientClose
  \/ SocketError
  \/ PartialTranscript
  \/ FinalSegment
  \/ FinalTranscript
  \/ CreateSettles
  \/ NextToken
  \/ StreamEnds
  \/ SpeechSettles

VoiceSpec == VoiceInit /\ [][VoiceNext]_vars

\* The session in which what is sent to the client is recorded.
VoiceObservedSpec == VoiceObservedInit /\ [][VoiceNext]_vars

\* Every provider call eventually returns or throws.
VoiceLiveSpec == VoiceSpec /\ WF_vars(GenerationStep)

\* ------------------------------------------------------------------------
\* The phase tracker over the requests of one interview
\* ------------------------------------------------------------------------

\* Longest conversation supplied.
MaxPhaseTurns == 8

PhaseInit ==
  /\ InterviewIdle
  /\ BatchIdle
  /\ VoiceIdle
  /\ PaymentIdle
  /\ ChatIdle
  /\ phaseConversation = << >>
  /\ phaseSeen = ""

\* The next request of the interview: the conversation has one more turn, of
\* the candidate or of the interviewer, and its phase is computed anew.
NextRequest ==
  /\ Len(phaseConversation) < MaxPhaseTurns
  /\ \E type \in {"user", "ai"} :
       LET conversation ==
             Append(phaseConversation,
                    [type |-> type,
                     text |-> IF type = "user" THEN AnswerNormal
                              ELSE QuestionKafka])
       IN  /\ phaseConversation' = conversation
           /\ phaseSeen' = interviewPhase(conversation)
  /\ UNCHANGED <<interviewVars, batchVars, voiceVars, paymentVars, chatVars>>

PhaseNext == NextRequest

PhaseSpec == PhaseInit /\ [][PhaseNext]_vars

\* ------------------------------------------------------------------------
\* verifyPayment: concurrent verify requests for one order
\* ------------------------------------------------------------------------

\* Most verify requests received for the order.
MaxVerifies == 2

\* Most credits the owner holds when the first request arrives.
MaxCreditsAtOrder == 1

\* PRICING_PLANS[plan].creditsGranted of the plans on sale
StarterCredits == 2
ValueCredits == 15

\* The order as createOrder saved it, and its owner.
PaymentInit ==
  /\ InterviewIdle
  /\ BatchIdle
  /\ VoiceIdle
  /\ PhaseIdle
  /\ ChatIdle
  /\ \E granted \in {StarterCredits, ValueCredits} :
       paymentDoc = [status |-> "pending", creditsGranted |-> granted]
  /\ \E credits \in 0..MaxCreditsAtOrder :
       /\ payerDoc = [credits |-> credits]
       /\ creditsAtOrder = credits
  /\ verifyRequests = << >>

outsidePayment ==
  <<interviewVars, batchVars, voiceVars, phaseVars, chatVars, creditsAtOrder>>

\* A verify request of the owner with all fields and a valid signature: it
\* runs up to its first await, Payment.findOne.
VerifyArrives ==
  /\ Len(verifyRequests) < MaxVerifies
  /\ verifyRequests' =
       Append(verifyRequests,
              [at |-> "find", credits |-> 0, userSaved |-> FALSE,
               paymentSaved |-> FALSE, outcome |-> "pending"])
  /\ UNCHANGED <<outsidePayment, paymentDoc, payerDoc>>

\* Payment.findOne returns: a captured order is answered at once, any other
\* goes on to razorpay.payments.fetch.
FindPayment ==
  /\ \E r \in DOMAIN verifyRequests :
       /\ verifyRequests[r].at = "find"
       /\ verifyRequests' =
            [verifyRequests EXCEPT ![r] =
               IF paymentDoc.status = "captured"
               THEN [@ EXCEPT !.at = "done", !.outcome = "already-verified"]
               ELSE [@ EXCEPT !.at = "fetch"]]
  /\ UNCHANGED <<outsidePayment, paymentDoc, payerDoc>>

\* razorpay.payments.fetch settles: a payment that is not captured is
\* refused; a captured one, and a fetch that throws, go on to User.findById.
FetchSettles ==
  /\ \E r \in DOMAIN verifyRequests,
        fetched \in {"captured", "authorized", "threw"} :
       /\ verifyRequests[r].at = "fetch"
       /\ verifyRequests' =
            [verifyRequests EXCEPT ![r] =
               IF fetched = "authorized"
               THEN [@ EXCEPT !.at = "done", !.outcome = "not-captured"]
               ELSE [@ EXCEPT !.at = "load"]]
  /\ UNCHANGED <<outsidePayment, paymentDoc, payerDoc>>

\* User.findById returns: the credits of the order are added to the copy
\* just read, and both saves are started.
LoadUser ==
  /\ \E r \in DOMAIN verifyRequests :
       /\ verifyRequests[r].at = "load"
       /\ verifyRequests' =
            [verifyRequests EXCEPT ![r] =
               [@ EXCEPT !.at = "save",
                         !.credits =
                            payerDoc.credits + paymentDoc.creditsGranted]]
  /\ UNCHANGED <<outsidePayment, paymentDoc, payerDoc>>

\* The request once one of its saves is written.
Saved(request) ==
  IF request.userSaved /\ request.paymentSaved
  THEN [request EXCEPT !.at = "done", !.outcome = "granted"]
  ELSE request

\* user.save() writes the credits of the request's copy.
SaveUser ==
  /\ \E r \in DOMAIN verifyRequests :
       /\ verifyRequests[r].at = "save"
       /\ ~verifyRequests[r].userSaved
       /\ payerDoc' = [payerDoc EXCEPT !.credits = verifyRequests[r].credits]
       /\ verifyRequests' =
            [verifyRequests EXCEPT ![r] = Saved([@ EXCEPT !.userSaved = TRUE])]
  /\ UNCHANGED <<outsidePayment, paymentDoc>>

\* payment.save() writes the status 'captured'.
SavePayment ==
  /\ \E r \in DOMAIN verifyRequests :
       /\ verifyRequests[r].at = "save"
       /\ ~verifyRequests[r].paymentSaved
       /\ paymentDoc' = [paymentDoc EXCEPT !.status = "captured"]
       /\ verifyRequests' =
            [verifyRequests EXCEPT ![r] =
               Saved([@ EXCEPT !.paymentSaved = TRUE])]
  /\ UNCHANGED <<outsidePayment, payerDoc>>

PaymentNext ==
  \/ VerifyArrives
  \/ FindPayment
  \/ FetchSettles
  \/ LoadUser
  \/ SaveUser
  \/ SavePayment

PaymentSpec == PaymentInit /\ [][PaymentNext]_vars

\* ------------------------------------------------------------------------
\* POST /api/chats: concurrent chat creations of one user
\* ------------------------------------------------------------------------

\* Most chat-creation requests received.
MaxChatRequests == 2

\* Most credits the user holds when the first request arrives.
MaxCreditsHeld == 2

\* resetMonthlyCreditsIfNeeded: the credits a subscription month starts with
ValueMonthlyCredits == 15
UnlimitedMonthlyCredits == 100

ChatInit ==
  /\ InterviewIdle
  /\ BatchIdle
  /\ VoiceIdle
  /\ PhaseIdle
  /\ PaymentIdle
  /\ \E credits \in 0..MaxCreditsHeld,
        plan \in {"STARTER", "VALUE", "UNLIMITED"}, resetDue \in BOOLEAN :
       /\ userDoc = [credits |-> credits, plan |-> plan, resetDue |-> resetDue]
       /\ creditsHeld = credits
  /\ chatDocs = 0
  /\ chatRequests = << >>

outsideChat ==
  <<interviewVars, batchVars, voiceVars, phaseVars, paymentVars, creditsHeld>>

\* The authentication middleware leaves in req.user the User document as it
\* is stored when the request arrives.
Authenticate ==
  /\ Len(chatRequests) < MaxChatRequests
  /\ chatRequests' =
       Append(chatRequests,
              [at |-> "handler", user |-> userDoc, creditsModified |-> FALSE,
               outcome |-> "pending"])
  /\ UNCHANGED <<outsideChat, userDoc, chatDocs>>

\* canTakeInterview and deductCredit up to its save: without credits the
\* request is refused, and otherwise the copy loses one credit.
Consumed(request) ==
  IF request.user.credits > 0
  THEN [request EXCEPT !.at = "deduct-save", !.user.credits = @ - 1,
                       !.creditsModified = TRUE]
  ELSE [request EXCEPT !.at = "done", !.outcome = "insufficient-credits"]

\* resetMonthlyCreditsIfNeeded up to its save, for a reset that is due.
Reset(request) ==
  LET credits ==
        IF request.user.plan = "VALUE" THEN ValueMonthlyCredits
        ELSE IF request.user.plan = "UNLIMITED" THEN UnlimitedMonthlyCredits
        ELSE request.user.credits
  IN  [request EXCEPT !.at = "reset-save", !.user.resetDue = FALSE,
                      !.user.credits = credits,
                      !.creditsModified = credits # request.user.credits]

\* The handler up to its first save.
CreateChat ==
  /\ \E r \in DOMAIN chatRequests :
       /\ chatRequests[r].at = "handler"
       /\ chatRequests' =
            [chatRequests EXCEPT ![r] =
               IF @.user.resetDue THEN Reset(@) ELSE Consumed(@)]
  /\ UNCHANGED <<outsideChat, userDoc, chatDocs>>

\* this.save(): the paths modified on the copy are written.
Written(request) ==
  [userDoc EXCEPT !.resetDue = request.user.resetDue,
                  !.credits = IF request.creditsModified
                              THEN request.user.credits ELSE @]

\* The save of resetMonthlyCreditsIfNeeded returns, and the handler goes on
\* to the credit.
ResetSaved ==
  /\ \E r \in DOMAIN chatRequests :
       /\ chatRequests[r].at = "reset-save"
       /\ userDoc' = Written(chatRequests[r])
       /\ chatRequests' =
            [chatRequests EXCEPT ![r] =
               Consumed([@ EXCEPT !.creditsModified = FALSE])]
  /\ UNCHANGED <<outsideChat, chatDocs>>

\* The save of deductCredit returns, and the chat is built and its save
\* started.
DeductSaved ==
  /\ \E r \in DOMAIN chatRequests :
       /\ chatRequests[r].at = "deduct-save"
       /\ userDoc' = Written(chatRequests[r])
       /\ chatRequests' = [chatRequests EXCEPT ![r].at = "chat-save"]
  /\ UNCHANGED <<outsideChat, chatDocs>>

\* chat.save() returns: 201.
ChatSaved ==
  /\ \E r \in DOMAIN chatRequests :
       /\ chatRequests[r].at = "chat-save"
       /\ chatDocs' = chatDocs + 1
       /\ chatRequests' =
            [chatRequests EXCEPT ![r].at = "done", ![r].outcome = "created"]
  /\ UNCHANGED <<outsideChat, userDoc>>

ChatNext ==
  \/ Authenticate
  \/ CreateChat
  \/ ResetSaved
  \/ DeductSaved
  \/ ChatSaved

ChatSpec == ChatInit /\ [][ChatNext]_vars

\* ------------------------------------------------------------------------
\* Properties of the handler
\* ------------------------------------------------------------------------

QuestionCallKinds == {"initial", "format", "hallucination", "valid", "repeat"}

RetryCallKinds == QuestionCallKinds \ {"initial"}

CallsOfKind(kind) == {i \in DOMAIN calls : calls[i].kind = kind}

QuestionCalls == {i \in DOMAIN calls : calls[i].kind \in QuestionCallKinds}

reachedGeneration == CallsOfKind("initial") # {}

\* Outcome of the first generation call, "none" before it is made.
InitialResult ==
  IF reachedGeneration
  THEN calls[CHOOSE i \in CallsOfKind("initial") : TRUE].result
  ELSE "none"

singleQuestion == requestedBatchCount = 1

lastCall == calls[Len(calls)]

\* The request went through the validation loop and was answered by Accept.
accepted == pc = "done" /\ route = "accept"

\* A retry result the checks of every stage reject: a completion with empty
\* content.
NonCompliant == [kind |-> "text", text |-> Empty]

\* Position of each step in the handler.
Rank ==
  [l \in {"start", "job", "validate", "clarify", "generate", "format",
          "hallucination", "valid", "repeat", "accept", "done"} |->
     CASE l = "start" -> 0
       [] l = "job" -> 1
       [] l = "validate" -> 2
       [] l = "clarify" -> 3
       [] l = "generate" -> 4
       [] l = "format" -> 5
       [] l = "hallucination" -> 6
       [] l = "valid" -> 7
       [] l = "repeat" -> 8
       [] l = "accept" -> 9
       [] l = "done" -> 10]

RetriesBounded ==
  /\ \A k \in QuestionCallKinds : Cardinality(CallsOfKind(k)) <= 1
  /\ Cardinality(QuestionCalls) <= 5

\* C1 as stated: a single-question request that reaches generation makes at
\* most one regeneration call per check stage, hence at most 5
\* question-generation calls, and always ends at the Accept step.
C1_AlwaysEndsAtAccept ==
  (singleQuestion /\ reachedGeneration) =>
    /\ RetriesBounded
    /\ pc = "done" => route = "accept"

C1_Bounded ==
  (singleQuestion /\ reachedGeneration) =>
    /\ RetriesBounded
    /\ pc = "done" =>
         IF InitialResult = "text"
         THEN route = "accept" /\ status = 200
         ELSE /\ Cardinality(QuestionCalls) = 1
              /\ \/ InitialResult = "throw" /\ status = 502
                 \/ InitialResult = "malformed" /\ status = 500

\* C1, amended: a single-question request that reaches generation makes at
\* most one regeneration call per check stage, hence at most 5
\* question-generation calls; every step moves the handler strictly forward,
\* so it never returns to a stage and ends after finitely many steps; it ends
\* at the Accept step exactly when the first call returned a well-formed
\* completion, and otherwise with an error response (502 when the first call
\* threw, 500 when its completion was malformed) after that single call.
C1_BoundedRetriesAndTermination ==
  [] C1_Bounded /\ [][Rank[pc'] > Rank[pc]]_vars

\* C1, reached: a request answered by Accept after all four regenerations.
C1_Witness ==
  accepted /\ singleQuestion /\ Cardinality(QuestionCalls) = 5

\* C2: in single-question mode, once the first generation call has returned
\* a well-formed completion, no error status is ever set and the request
\* ends with status 200 and a non-empty question, whatever the later
\* regeneration calls return or throw.
C2_SuccessAfterFirstCompletion ==
  (singleQuestion /\ InitialResult = "text") =>
    /\ status \in {0, 200}
    /\ pc = "done" =>
         status = 200 /\ route = "accept" /\ response # Empty

\* C2, reached: a success response after regenerations that threw, carrying
\* the final fallback.
C2_Witness ==
  /\ accepted /\ singleQuestion /\ status = 200
  /\ \E i \in DOMAIN calls :
       calls[i].kind \in RetryCallKinds /\ calls[i].result = "throw"
  /\ response = finalFallback

\* C3: when the first generation call throws, the request has ended with
\* status 502, that call is the last Generation Client call of the request,
\* no regeneration call was made and no question is returned.
C3_FirstCallThrowIs502 ==
  InitialResult = "throw" =>
    /\ pc = "done" /\ status = 502 /\ route = "llm-provider-error"
    /\ lastCall.kind = "initial"
    /\ \A k \in RetryCallKinds : CallsOfKind(k) = {}
    /\ response = Empty /\ responses = << >>

\* C3, reached: a request that ended with 502 after its first call threw.
C3_Witness ==
  pc = "done" /\ status = 502 /\ InitialResult = "throw"

\* C4 as stated: a regeneration call that throws leaves the candidate as the
\* same regeneration returning non-compliant content would: after the
\* hallucination or the valid-question retry threw, the candidate is the safe
\* fallback; after the repeat retry threw, a fallback variant; after the
\* format retry threw, the candidate it had.
C4_ThrowTakesFallbackPath ==
  (singleQuestion /\ calls # << >> /\ lastCall.result = "throw") =>
    /\ (pc = "hallucination" /\ lastCall.kind = "format") =>
         trimmedResponse =
           afterFormatRetry(NonCompliant,
                            enforceQuestionOnly(
                              clampWords(aiResponseRaw, RawMaxWords),
                              QuestionMaxWords))
    /\ (pc = "valid" /\ lastCall.kind = "hallucination") =>
         trimmedResponse = afterHallucinationRetry(NonCompliant, Empty)
    /\ (pc = "repeat" /\ lastCall.kind = "valid") =>
         trimmedResponse = afterValidRetry(NonCompliant, Empty)
    /\ (pc = "accept" /\ lastCall.kind = "repeat") =>
         trimmedResponse =
           afterRepeatRetry(NonCompliant,
                            recentAssistantQuestions(req.conversation))

\* C4, reached: the anti-hallucination retry threw and the candidate is still
\* the text that failed the check, not the safe fallback.
C4_Witness ==
  /\ pc = "valid" /\ singleQuestion
  /\ aiResponseRaw = QuestionPhoenix
  /\ lastCall = [kind |-> "hallucination", result |-> "throw"]
  /\ trimmedResponse = QuestionPhoenix
  /\ trimmedResponse # afterHallucinationRetry(NonCompliant, Empty)

\* C5 as stated: every question returned by the validation loop is
\* non-empty, ends with '?', satisfies isValidQuestion and has at most 60
\* words.
C5_ReturnedQuestionWellFormed ==
  accepted =>
    /\ response # Empty
    /\ EndsWithQ(response)
    /\ isValidQuestion(response)
    /\ WordCount(response) <= QuestionMaxWords

\* C5, reached: a first completion that passed every check without a retry is
\* emptied by the final sanitizing, and the question returned is the final
\* fallback, which does not end with '?'.
C5_Witness ==
  /\ accepted /\ aiResponseRaw = QuestionNumbered
  /\ \A k \in RetryCallKinds : CallsOfKind(k) = {}
  /\ response = finalFallback
  /\ ~EndsWithQ(response) /\ ~isValidQuestion(response)

\* C6 as stated: no question returned by the validation loop names an entity
\* absent from the allowed context of its request.
C6_ReturnedQuestionNotHallucinated ==
  accepted => detectHallucinatedEntities(response, allowedContext) = {}

\* C6, reached: the anti-hallucination retry threw and the question naming
\* the unknown project is returned.
C6_Witness ==
  /\ accepted /\ aiResponseRaw = QuestionPhoenix
  /\ lastCall = [kind |-> "hallucination", result |-> "throw"]
  /\ response = QuestionPhoenix
  /\ ~Includes(allowedContext, <<"Project", "Phoenix">>)

\* C7 as stated: the similarity of every question returned by the validation
\* loop with each of the last (up to) 3 interviewer turns is below 0.75.
C7_ReturnedQuestionNotRepeated ==
  accepted =>
    ~isRepeatOf(response, recentAssistantQuestions(req.conversation))

\* C7, reached: the final fallback is returned although it is the previous
\* interviewer turn word for word.
C7_Witness ==
  /\ accepted /\ aiResponseRaw = QuestionNumbered
  /\ \A k \in RetryCallKinds : CallsOfKind(k) = {}
  /\ response = FinalFallbackNoTitle
  /\ req.conversation[Len(req.conversation)].text = FinalFallbackNoTitle
  /\ overlapSimilarity(response, FinalFallbackNoTitle) = 100

PartsOf(messages) ==
  UNION {{messages[i].content[j] : j \in DOMAIN messages[i].content} :
         i \in DOMAIN messages}

ResumeRules == {Rule("RESUME SUMMARY"), Rule("RESUME CORE SKILLS")}

\* C8: for a STARTER or FREE plan the request is never refused for its
\* resumeId, the handler holds no resume text, and the messages of the call
\* just made are those built without any resume: they hold no resume-derived
\* part and no resume block.  This holds after every call, and the messages
\* are then a function of the other fields of the request alone, so two
\* requests that differ only in resumeId send the same prompts.
C8_StarterPromptsIgnoreResume ==
  req.plan \in {"STARTER", "FREE"} =>
    /\ route # "resume-not-found"
    /\ resumePrompt = << >> /\ fullResumeText = Empty
    /\ calls # << >> =>
         LET sent == Messages(lastCall.kind)
         IN  /\ sent = MessagesFor(lastCall.kind, << >>)
             /\ \A part \in PartsOf(sent) :
                  part.src # "resume" /\ part \notin ResumeRules

\* C8, reached: a FREE request naming a stored resume after its first call
\* and a regeneration call.
C8_Witness ==
  /\ req.plan = "FREE" /\ req.resumeId = "R1"
  /\ reachedGeneration
  /\ \E k \in RetryCallKinds : CallsOfKind(k) # {}

\* C9 as stated: a valid request with an empty conversation is answered by
\* the templated introduction without any Generation Client call.
C9_IntroductionMakesNoCall ==
  (isFirstQuestion /\ pc = "done" /\ status = 200) =>
    /\ route = "introduction" /\ response = introQuestion
    /\ calls = << >>

\* C9, reached: the templated introduction is returned after a call for
\* company questions.
C9_Witness ==
  /\ isFirstQuestion /\ route = "introduction"
  /\ calls # << >> /\ calls[1].kind = "company"

\* A message that holds the candidate's utterance outside the fixed prompt
\* text.
MentionsUtterance(messages) ==
  \E part \in PartsOf(messages) :
    part.src # "rule" /\ Includes(part.text, req.userAnswer)

\* C10 as stated: a skip request runs generation and the validation loop,
\* and none of the messages of the calls it makes holds the candidate's
\* literal utterance.
C10_SkipNeverSendsUtterance ==
  (isSkipRequest(req.userAnswer) /\ ~isFirstQuestion) =>
    /\ route \notin {"repeat", "elaborate", "no-question-to-clarify"}
    /\ (pc = "done" /\ singleQuestion /\ InitialResult = "text") =>
         route = "accept"
    /\ \A i \in DOMAIN calls : ~MentionsUtterance(Messages(calls[i].kind))

\* C10, reached: a skip request whose format retry holds the utterance, while
\* the first call held the sentinel instruction only.
C10_Witness ==
  /\ isSkipRequest(req.userAnswer) /\ bodyUserAnswer = SkipSentinel
  /\ CallsOfKind("format") # {}
  /\ ~MentionsUtterance(Messages("initial"))
  /\ MentionsUtterance(Messages("format"))

\* The latest turn not tagged as the candidate's that looks like a question,
\* Empty when there is none: the interviewer turns as the phase tracker and
\* the repeat check recognise them.
lastInterviewerQuestion ==
  LET conv == req.conversation
      found == {i \in 1..Len(conv) :
                  conv[i].type # "user" /\ conv[i].text # Empty
                  /\ isActualQuestion(conv[i].text)}
  IN  IF found = {} THEN Empty
      ELSE conv[CHOOSE i \in found : \A j \in found : j <= i].text

\* The request passed input validation and was answered.
answered == pc = "done" /\ status = 200

\* C11 as stated: a repeat request whose conversation holds an interviewer
\* turn that looks like a question makes no Generation Client call and is
\* answered by an acknowledgement prefix followed by the latest such turn.
C11_RepeatReturnsLastQuestion ==
  (isRepeatRequest(req.userAnswer) /\ lastInterviewerQuestion # Empty
     /\ answered) =>
    /\ calls = << >>
    /\ \E prefix \in repeatPrefixes :
         response = prefix \o lastInterviewerQuestion

\* C11, reached: a repeat request after an interviewer turn of type 'ai',
\* with no currentQuestion, is answered by the request for an answer and not
\* by the question.
C11_Witness ==
  /\ isRepeatRequest(req.userAnswer) /\ answered
  /\ req.currentQuestion = Empty
  /\ req.conversation # << >>
  /\ req.conversation[1] = [type |-> "ai", text |-> QuestionKafka]
  /\ lastInterviewerQuestion = QuestionKafka
  /\ calls = << >>
  /\ route = "no-question-to-clarify"
  /\ ~Includes(response, QuestionKafka)


\* ------------------------------------------------------------------------
\* C12: extractBatchQuestions
\* ------------------------------------------------------------------------

NoEmptyNoDuplicateAllQuestions(items) ==
  /\ \A i \in 1..Len(items) : items[i] # Empty /\ EndsWithQ(items[i])
  /\ \A i, j \in 1..Len(items) : i # j => items[i] # items[j]

batchAnswered ==
  /\ requestedBatchCount > 1
  /\ pc = "done"
  /\ InitialResult = "text"

\* The "|||"-separated clauses of the raw output.
rawClauses == SplitOn(aiResponseRaw, "|||")

\* The raw output is exactly batchCount distinct clauses, each one question.
distinctQuestionClauses ==
  /\ Len(rawClauses) = requestedBatchCount
  /\ \A i \in 1..Len(rawClauses) :
       /\ EndsWithQ(rawClauses[i])
       /\ FirstIndex(rawClauses[i], {"?"}) = Len(rawClauses[i])
       /\ Len(rawClauses[i]) > 1
  /\ \A i, j \in 1..Len(rawClauses) : i # j => rawClauses[i] # rawClauses[j]

\* C13 (as stated): a request with batchCount > 1 whose generation call
\* returned makes exactly one question-generation call and answers with a
\* responses array of 1..batchCount questions, each non-empty and ending with
\* "?", whose first element is response; a raw output of batchCount distinct
\* "|||"-separated questions comes back as those clauses in order; a request
\* with batchCount = 1 is answered without responses.
C13_BatchResponsesAreQuestions ==
  /\ batchAnswered =>
       /\ Cardinality(QuestionCalls) = 1
       /\ status = 200
       /\ Len(responses) \in 1..requestedBatchCount
       /\ \A i \in 1..Len(responses) :
            responses[i] # Empty /\ EndsWithQ(responses[i])
       /\ response = responses[1]
       /\ distinctQuestionClauses => responses = rawClauses
  /\ (singleQuestion /\ pc = "done") => responses = << >>

\* A batch request whose completion has empty content is answered with a
\* responses array holding one empty string.
C13_Witness ==
  /\ batchAnswered
  /\ aiResponseRaw = Empty
  /\ status = 200
  /\ responses = <<Empty>>
  /\ response = Empty


\* ------------------------------------------------------------------------
\* C14: requests without the context their plan requires
\* ------------------------------------------------------------------------

\* The request names no job, by id or ad hoc.
noJobContext == JobPromptLines(req.job) = << >>

\* The request names no stored resume of the user.
noResumeContext == req.resumeId \notin DOMAIN Resumes

lacksRequiredContext ==
  /\ noJobContext
  /\ req.plan \in {"STARTER", "FREE"} \/ noResumeContext

\* The handler ran on a server with text-to-speech configured and answered.
handled == pc = "done" /\ route # "tts-unavailable"

\* C14: a request from a STARTER/FREE user with no job context, or from
\* another user with neither job nor resume context, is answered 400 with no
\* call made, whether or not its conversation is empty.
C14_MissingContextRejectedBeforeAnyCall ==
  (handled /\ lacksRequiredContext) =>
    /\ status = 400
    /\ calls = << >>
    /\ response = Empty

\* Both rejections happen for a request whose conversation is empty, which
\* would otherwise be answered by the templated introduction.
C14_Witness ==
  /\ handled
  /\ lacksRequiredContext
  /\ isFirstQuestion
  /\ status = 400
  /\ \/ req.plan = "FREE" /\ req.resumeId = "R1" /\ route = "starter-needs-job"
     \/ req.plan = "VALUE" /\ req.resumeId = "" /\ route = "needs-job-or-resume"


\* ------------------------------------------------------------------------
\* C15: one generation at a time
\* ------------------------------------------------------------------------

\* C15: in a voice session at most one call of generateAIResponse is in
\* flight, whichever handles deliver the final transcripts and in whatever
\* order.
C15_AtMostOneGenerationInFlight == Len(inFlight) <= 1

\* While the generation started by a transcript of the first handle is in
\* flight, the second handle of the same connection delivers a final
\* transcript.
C15_Witness ==
  /\ Len(inFlight) = 1
  /\ inFlight[1].handle = 1
  /\ inFlight[1].at = "streaming"
  /\ handles = <<"live", "live">>
  /\ lastFinal = [handle |-> 2, outcome |-> "dropped"]


\* ------------------------------------------------------------------------
\* C16: a final transcript that arrives during a generation
\* ------------------------------------------------------------------------

\* The step handles a final transcript that found isProcessing true.
SkipsTranscript ==
  /\ isProcessing
  /\ lastFinal'.outcome = "dropped"
  /\ <<lastFinal, currentTranscript>>' # <<lastFinal, currentTranscript>>

\* The step starts a generation.
StartsGeneration == Len(inFlight') > Len(inFlight)

\* C16: a final transcript that arrives while isProcessing is true starts no
\* generation, changes neither the history nor what was sent for any
\* generation, and is not kept for later: a generation only ever starts in
\* the step that handles a final transcript while isProcessing is false, for
\* the transcript of that step.
C16_SkippedTranscriptLeavesNoTrace ==
  [][/\ SkipsTranscript =>
          UNCHANGED <<inFlight, started, conversationHistory, lastGeneration,
                      isProcessing>>
     /\ StartsGeneration =>
          /\ ~isProcessing
          /\ lastFinal'.outcome = "started"
          /\ inFlight' =
               Append(inFlight,
                      NewGeneration(currentTranscript', lastFinal'.handle))]_vars

\* A transcript was skipped during a generation that has since finished: no
\* generation is in flight and the history holds that generation only.
C16_Witness ==
  /\ lastFinal.outcome = "dropped"
  /\ currentTranscript = TranscriptQueues
  /\ inFlight = << >>
  /\ ~isProcessing
  /\ lastGeneration.utterance = TranscriptKafka
  /\ conversationHistory =
       <<[role |-> "user", content |-> TranscriptKafka],
         [role |-> "assistant", content |-> <<"Why", "?">>]>>


\* ------------------------------------------------------------------------
\* C17: isProcessing is reset when the generation ends
\* ------------------------------------------------------------------------

\* The step handles a final transcript.
HandlesFinal ==
  <<lastFinal, currentTranscript>>' # <<lastFinal, currentTranscript>>

\* C17: isProcessing is true exactly while a generation is in flight; every
\* step that ends a generation, however it ends, resets it; so it always
\* becomes false again, and a final transcript handled while it is false
\* starts a generation unless sending the transcript on fails.
C17_ProcessingResetWhenGenerationEnds ==
  /\ [](isProcessing <=> inFlight # << >>)
  /\ [][/\ Len(inFlight') < Len(inFlight) => ~isProcessing'
        /\ (HandlesFinal /\ ~isProcessing
              /\ lastFinal'.outcome # "send-failed") =>
             StartsGeneration /\ isProcessing']_vars
  /\ isProcessing ~> ~isProcessing

\* The first generation of the session ended in an error, and the next final
\* transcript started the second one.
C17_Witness ==
  /\ started = 2
  /\ lastGeneration = NoGeneration
  /\ conversationHistory = << >>
  /\ isProcessing
  /\ Len(inFlight) = 1
  /\ lastFinal.outcome = "started"


\* ------------------------------------------------------------------------
\* C18: the conversation history of a voice session
\* ------------------------------------------------------------------------

\* The two entries a generation adds to the history.
Exchange(generation) ==
  <<[role |-> "user", content |-> generation.utterance],
    [role |-> "assistant", content |-> generation.fullResponse]>>

\* C18: the history never holds more than 20 entries; it changes only when a
\* generation runs to its end, and then it is the last 20 entries of the
\* previous history followed by the utterance and the full response of that
\* generation, which stay its last two entries until the next one ends.
C18_HistoryKeepsLatestTwenty ==
  /\ [](/\ Len(conversationHistory) <= VoiceHistoryLimit
        /\ lastGeneration # NoGeneration =>
             LastN(conversationHistory, 2) = Exchange(lastGeneration))
  /\ [][conversationHistory' # conversationHistory =>
          /\ Len(inFlight') < Len(inFlight)
          /\ conversationHistory' =
               LastN(conversationHistory \o Exchange(lastGeneration'),
                     VoiceHistoryLimit)]_vars

\* The eleventh generation of a session has ended: the history holds 20
\* entries, the exchange of the first generation is gone and that of the
\* eleventh is at the end.
C18_Witness ==
  /\ started = 11
  /\ inFlight = << >>
  /\ Len(conversationHistory) = VoiceHistoryLimit
  /\ lastGeneration.utterance = TranscriptKafka
  /\ conversationHistory[19] = [role |-> "user", content |-> TranscriptKafka]
  /\ conversationHistory[20] =
       [role |-> "assistant", content |-> <<"Why", "?">>]
  /\ \A i \in 1..9 :
       conversationHistory[2 * i - 1] =
         [role |-> "user", content |-> TranscriptQueues]


\* ------------------------------------------------------------------------
\* C19: the chunks of a voice generation
\* ------------------------------------------------------------------------

\* The non-empty ones among the tokens, in their order.
NonEmptyTokens(tokens) == SelectSeq(tokens, LAMBDA content : content # Empty)

\* C19: at every moment of a generation the chunks sent are the non-empty
\* tokens read from the stream so far, in order and once each, and the
\* response accumulated is their concatenation; when the generation reaches
\* ai_response_complete the chunks are those of the whole stream and
\* fullResponse is their concatenation.
C19_ChunksFollowTokens ==
  /\ \A g \in DOMAIN inFlight :
       /\ inFlight[g].chunks =
            NonEmptyTokens(SubSeq(inFlight[g].stream, 1, inFlight[g].read))
       /\ inFlight[g].fullResponse = Flatten(inFlight[g].chunks)
  /\ lastGeneration # NoGeneration =>
       /\ lastGeneration.chunks = NonEmptyTokens(lastGeneration.stream)
       /\ lastGeneration.fullResponse = Flatten(lastGeneration.chunks)

\* A stream of four tokens, one of them empty, was sent as three chunks and
\* then completed.
C19_Witness ==
  /\ lastGeneration # NoGeneration
  /\ lastGeneration.complete = "sent"
  /\ lastGeneration.stream = StreamTagged
  /\ Len(lastGeneration.chunks) = 3
  /\ lastGeneration.fullResponse =
       <<FeedbackTag, "Good", "]", QuestionTag, "Why", "?", "]">>
  /\ lastGeneration.feedback = <<"Good">>


\* ------------------------------------------------------------------------
\* C20: the handles left after a teardown
\* ------------------------------------------------------------------------

\* The session has opened a handle and holds none: its last start_stream
\* was followed by a stop_stream, a disconnect or a socket error.
tornDown == handles # << >> /\ deepgramLive = 0

\* C20 (as stated): once the session is torn down, every handle it opened
\* has been finished.
C20_TeardownClosesEveryHandle ==
  tornDown => \A h \in DOMAIN handles : handles[h] = "finished"

\* Two start_stream messages and then a disconnect: the handle of the first
\* is still live.
C20_Witness ==
  /\ socket = "closed"
  /\ deepgramLive = 0
  /\ handles = <<"live", "finished">>


\* ------------------------------------------------------------------------
\* C22: elaborate requests
\* ------------------------------------------------------------------------

\* The utterance asks to elaborate and not to repeat, a prior question is
\* found, and the request got past validation with a conversation.
elaborateAnswered ==
  /\ isElaborateRequest(req.userAnswer)
  /\ ~isRepeatRequest(req.userAnswer)
  /\ lastQuestion # Empty
  /\ req.conversation # << >>
  /\ pc = "done"
  /\ route \notin {"tts-unavailable", "resume-not-found", "starter-needs-job",
                    "needs-job-or-resume"}

\* C22 (as stated): such a request makes exactly one Generation Client call,
\* the rephrase call, stays out of the validation loop and is answered 200,
\* by "Let me clarify: " and the original question when the call throws; a
\* skip utterance is answered by neither clarification branch.
C22_ElaborateMakesOneCall ==
  /\ elaborateAnswered =>
       /\ Len(calls) = 1
       /\ calls[1].kind = "rephrase"
       /\ status = 200
       /\ route = "elaborate"
       /\ trimmedResponse = Empty
       /\ calls[1].result = "throw" =>
            response = <<"Let", "me", "clarify", ":">> \o lastQuestion
  /\ (isSkipRequest(req.userAnswer) /\ pc = "done") =>
       route \notin {"repeat", "elaborate", "no-question-to-clarify"}

\* An elaborate request for a target job with a company is answered after
\* two calls: the one for company questions and the rephrase call.
C22_Witness ==
  /\ elaborateAnswered
  /\ route = "elaborate"
  /\ status = 200
  /\ Len(calls) = 2
  /\ calls[1].kind = "company"
  /\ calls[2].kind = "rephrase"


\* ------------------------------------------------------------------------
\* C23: extractBatchQuestions on a text without the delimiter
\* ------------------------------------------------------------------------

\* The raw text holds no "|||" and its "?"-terminated segments are distinct.
distinctSegmentsNoDelimiter ==
  /\ ~Has(rawText, "|||")
  /\ \A i, j \in DOMAIN QuestionSegments(rawText) :
       i # j => QuestionSegments(rawText)[i] # QuestionSegments(rawText)[j]

\* C23 (as stated): for a raw text without "|||" whose k "?"-terminated
\* segments are distinct and a desired count of at least one, the result is
\* the first min(k, desiredCount) of those segments.
C23_SegmentsWithoutDelimiter ==
  (batchDone /\ desiredCount >= 1 /\ distinctSegmentsNoDelimiter) =>
    batchQuestions = Take(QuestionSegments(rawText), desiredCount)

\* Two questions without a delimiter and three asked for: one comes back.
C23_Witness ==
  /\ batchDone
  /\ desiredCount = 3
  /\ rawText = <<"What", "?", "queues", "?">>
  /\ batchQuestions = <<(<<"What", "?">>)>>


\* ------------------------------------------------------------------------
\* C24: the interview phase
\* ------------------------------------------------------------------------

\* Number of interviewer turns of the conversation supplied.
interviewerTurns ==
  Len(SelectSeq(phaseConversation, LAMBDA msg : msg.type # "user"))

PhaseOrder ==
  [p \in {"", "technical-skills", "experience-projects", "behavioral"} |->
     CASE p = "" -> 0
       [] p = "technical-skills" -> 1
       [] p = "experience-projects" -> 2
       [] p = "behavioral" -> 3]

\* C24: for every non-empty conversation the phase is technical-skills with
\* fewer than 2 interviewer turns, experience-projects with 2 to 4, and
\* behavioral with 5 or more; as turns are appended it never moves backwards.
C24_PhaseFollowsInterviewerTurns ==
  /\ [](phaseConversation # << >> =>
          phaseSeen = IF interviewerTurns < 2 THEN "technical-skills"
                      ELSE IF interviewerTurns < 5 THEN "experience-projects"
                      ELSE "behavioral")
  /\ [][PhaseOrder[phaseSeen'] >= PhaseOrder[phaseSeen]]_vars

\* The conversation holds five interviewer turns, of which the recent
\* window shows fewer, and the phase is behavioral.
C24_Witness ==
  /\ Len(phaseConversation) = 8
  /\ interviewerTurns = 5
  /\ questionsAsked(LastN(phaseConversation, HistoryWindow)) = 3
  /\ phaseSeen = "behavioral"

\* ------------------------------------------------------------------------
\* Properties of what the voice session sends to the client
\* ------------------------------------------------------------------------

\* How many of the events sent in the step are the given one.
SentCount(event) ==
  Cardinality({i \in DOMAIN exchange.sent : exchange.sent[i] = event})

\* C21: on an open connection every start_stream is answered with exactly
\* one stream_ready, whatever the session has done before; every stop_stream
\* is answered with stream_stopped and every ping with pong.
C21_ControlMessagesAnswered ==
  /\ exchange.received = "start_stream" => SentCount("stream_ready") = 1
  /\ exchange.received = "stop_stream" => exchange.sent = <<"stream_stopped">>
  /\ exchange.received = "ping" => exchange.sent = <<"pong">>

\* A start_stream received after a stop_stream has been answered.
C21_Witness ==
  /\ exchange.received = "start_stream"
  /\ handles = <<"finished", "live">>
  /\ exchange.sent = <<"stream_ready">>

\* ------------------------------------------------------------------------
\* C25: the segments parsed from the token stream
\* ------------------------------------------------------------------------

\* A parser over the accumulated text with the states Seeking, InFeedback and
\* InQuestion: a marker opens its segment, the next closing bracket ends it.
RECURSIVE Scan(_, _, _, _)
Scan(text, state, feedback, question) ==
  IF text = << >> THEN [feedback |-> feedback, question |-> question]
  ELSE LET word == Head(text)
           rest == Tail(text)
       IN  IF word = FeedbackTag
           THEN Scan(rest, "InFeedback", feedback, question)
           ELSE IF word = QuestionTag
           THEN Scan(rest, "InQuestion", feedback, question)
           ELSE IF word = "]"
           THEN Scan(rest, "Seeking", feedback, question)
           ELSE IF state = "InFeedback"
           THEN Scan(rest, state, Append(feedback, word), question)
           ELSE IF state = "InQuestion"
           THEN Scan(rest, state, feedback, Append(question, word))
           ELSE Scan(rest, state, feedback, question)

SegmentsOf(text) == Scan(text, "Seeking", << >>, << >>)

\* The response is one feedback segment followed by one question segment.
wellFormed(text) ==
  /\ text # << >>
  /\ text[1] = FeedbackTag
  /\ text[Len(text)] = "]"
  /\ Cardinality({i \in DOMAIN text : text[i] = FeedbackTag}) = 1
  /\ Cardinality({i \in DOMAIN text : text[i] = QuestionTag}) = 1
  /\ Cardinality({i \in DOMAIN text : text[i] = "]"}) = 2

\* C25 (as stated): the feedback and the question of a finished generation
\* are those a parser over the full response text finds, however the
\* response was split into tokens.
C25_SegmentsIndependentOfTokens ==
  (lastGeneration # NoGeneration /\ wellFormed(lastGeneration.fullResponse))
    => /\ lastGeneration.feedback =
            SegmentsOf(lastGeneration.fullResponse).feedback
       /\ lastGeneration.question =
            SegmentsOf(lastGeneration.fullResponse).question

\* The question marker arrived in one token with the question: the full
\* response holds the question and the parsed question is empty.
C25_Witness ==
  /\ lastGeneration # NoGeneration
  /\ lastGeneration.fullResponse =
       <<FeedbackTag, "Good", "]", QuestionTag, "Why", "?", "]">>
  /\ lastGeneration.feedback = <<"Good">>
  /\ lastGeneration.question = << >>
  /\ SegmentsOf(lastGeneration.fullResponse).question = <<"Why", "?">>

\* ------------------------------------------------------------------------
\* C26: transcription results relayed to the client
\* ------------------------------------------------------------------------

\* C26 (as stated): on an open connection every non-empty transcription
\* result is relayed as exactly one transcript_partial when it is not final
\* and as exactly one transcript_final when it is final.
C26_EveryResultRelayed ==
  socket = "open" =>
    /\ exchange.received = "results-interim" =>
         exchange.sent = <<"transcript_partial">>
    /\ exchange.received \in {"results-final", "results-speech-final"} =>
         exchange.sent = <<"transcript_final">>

\* A final result that does not end the speech has been handled on an open
\* connection and nothing was sent for it.
C26_Witness ==
  /\ socket = "open"
  /\ exchange.received = "results-final"
  /\ exchange.sent = << >>
  /\ inFlight = << >>

\* ------------------------------------------------------------------------
\* C27: a generation that fails
\* ------------------------------------------------------------------------

\* The step ends a generation.
GenerationEnded == Len(inFlight') < Len(inFlight)

\* The step is the catch of a generation whose provider call or stream threw.
GenerationFailed ==
  GenerationEnded /\ exchange'.received \in {"create-threw", "stream-threw"}

TerminalEvents == {"ai_response_complete", "error"}

\* C27: on an open connection a generation whose streaming call throws,
\* before the first token or part-way, leaves conversationHistory unchanged
\* and sends exactly one error and no ai_response_complete; every generation
\* ends with exactly one terminal event, and no terminal event is sent for a
\* generation that goes on.
C27_FailedGenerationReportedOnce ==
  [][socket = "open" =>
       /\ GenerationFailed =>
            /\ conversationHistory' = conversationHistory
            /\ exchange'.sent = <<"error">>
       /\ GenerationEnded =>
            /\ Len(exchange'.sent) = 1
            /\ exchange'.sent[1] \in TerminalEvents
       /\ (~GenerationEnded /\ exchange'.received \in
             {"create-returned", "token", "stream-ended"}) =>
            \A i \in DOMAIN exchange'.sent :
              exchange'.sent[i] \notin TerminalEvents]_vars

\* A second generation has failed in its stream on the open connection: the
\* history still holds the first exchange only, and one error was sent.
C27_Witness ==
  /\ socket = "open"
  /\ exchange.received = "stream-threw"
  /\ exchange.sent = <<"error">>
  /\ inFlight = << >>
  /\ ~isProcessing
  /\ Len(conversationHistory) = 2
  /\ started = 2

\* ------------------------------------------------------------------------
\* C28: silence after stream_stopped
\* ------------------------------------------------------------------------

StreamEvents ==
  {"transcript_partial", "transcript_final", "ai_response_chunk",
   "ai_response_complete"}

\* C28 (as stated): between a stream_stopped and the next start_stream the
\* open connection is sent no transcript_partial, transcript_final,
\* ai_response_chunk or ai_response_complete.
C28_SilentAfterStreamStopped ==
  (socket = "open" /\ exchange.stopped) =>
    \A i \in DOMAIN exchange.sent : exchange.sent[i] \notin StreamEvents

\* The only stream of the session was stopped while its generation was in
\* flight, and the generation has since sent its ai_response_complete.
C28_Witness ==
  /\ socket = "open"
  /\ exchange.stopped
  /\ handles = <<"finished">>
  /\ deepgramLive = 0
  /\ exchange.received = "generation-finished"
  /\ exchange.sent = <<"ai_response_complete">>

\* ------------------------------------------------------------------------
\* C29: credits granted for one order
\* ------------------------------------------------------------------------

\* C29 (as stated): whatever the number and the interleaving of the verify
\* requests for an order, its creditsGranted are added to the owner's
\* credits at most once.
C29_CreditsGrantedAtMostOnce ==
  payerDoc.credits <= creditsAtOrder + paymentDoc.creditsGranted

\* Two requests have both read the order as pending and have both been
\* answered with the credits granted: the owner holds them twice.
C29_Witness ==
  /\ Len(verifyRequests) = 2
  /\ \A r \in DOMAIN verifyRequests : verifyRequests[r].outcome = "granted"
  /\ paymentDoc.status = "captured"
  /\ payerDoc.credits = creditsAtOrder + 2 * paymentDoc.creditsGranted

\* ------------------------------------------------------------------------
\* C30: credits consumed by chat creation
\* ------------------------------------------------------------------------

\* C30 (as stated): the credits never become negative, and for a user whose
\* credits are not reset monthly the chats created never outnumber the
\* credits the user held, whatever the interleaving of the requests.
C30_ChatsWithinCredits ==
  /\ userDoc.credits >= 0
  /\ \A r \in DOMAIN chatRequests : chatRequests[r].user.credits >= 0
  /\ userDoc.plan = "STARTER" => chatDocs <= creditsHeld

\* Two requests of a user holding one credit were both authenticated before
\* either saved: both created a chat.
C30_Witness ==
  /\ userDoc.plan = "STARTER"
  /\ creditsHeld = 1
  /\ chatDocs = 2
  /\ \A r \in DOMAIN chatRequests : chatRequests[r].outcome = "created"
  /\ userDoc.credits = 0

====
